---- MODULE Spec2Model ----
(***************************************************************************)
(* Analytical kernel of the HVAC simulator: single-jet physics             *)
(* (jetPhysics), multi-outlet vector field (jetInteraction), level         *)
(* summation (acoustics) and comfort evaluation (comfort).                 *)
(*                                                                         *)
(* Numbers.  The JavaScript code computes in IEEE doubles; the model       *)
(* computes in scaled integers:                                            *)
(*   length            mm                                                  *)
(*   area              10^-5 m2                                            *)
(*   volume flow       m3/h                                                *)
(*   velocity          10^-4 m/s                                           *)
(*   temperature       0.01 degC                                           *)
(*   Archimedes number 10^-5                                               *)
(*   sound level       0.001 dB  (= 10^-4 decades of sound energy)         *)
(*   draught rate      0.01 %                                              *)
(* Sound energies 10^(L/10) span many decades and are summed in a decimal  *)
(* floating-point format with FloatDigits significant digits, rounding     *)
(* after every addition as a double addition does.                         *)
(***************************************************************************)
EXTENDS Integers, Sequences, FiniteSets, TLC

\* ------------------------------------------------------------------------
\* Arithmetic helpers (Math.abs, Math.min, Math.max, Math.sqrt, division)
\* ------------------------------------------------------------------------

Abs(x) == IF x < 0 THEN -x ELSE x

Min2(a, b) == IF a < b THEN a ELSE b

Max2(a, b) == IF a > b THEN a ELSE b

\* a / b rounded to the nearest integer (b > 0)
RoundDiv(a, b) == (2 * a + b) \div (2 * b)

\* floor(a * b / c) for b >= 0, c > 0, without forming a * b
MulDiv(a, b, c) == (a \div c) * b + ((a % c) * b) \div c

RECURSIVE SqrtIter(_, _)
SqrtIter(n, x) ==
    LET y == (x + n \div x) \div 2
    IN  IF y >= x THEN x ELSE SqrtIter(n, y)

\* floor(sqrt(n)), n >= 0
Sqrt(n) ==
    IF n < 2 THEN n
    ELSE SqrtIter(n, IF n < 10^4 THEN 100
                     ELSE IF n < 10^6 THEN 1000
                     ELSE IF n < 10^8 THEN 10^4
                     ELSE 46341)

RECURSIVE Digits(_)
\* number of decimal digits of n >= 1
Digits(n) == IF n < 10 THEN 1 ELSE 1 + Digits(n \div 10)

\* ------------------------------------------------------------------------
\* Math.pow(10, x) and Math.log10(x): table of 10^(k/100) scaled by 10^6,
\* linear interpolation in between; exponents in 10^-4 decades.
\* ------------------------------------------------------------------------

TenPow ==
 << 1000000, 1023293, 1047129, 1071519, 1096478, 1122018, 1148154, 1174898,
    1202264, 1230269, 1258925, 1288250, 1318257, 1348963, 1380384, 1412538,
    1445440, 1479108, 1513561, 1548817, 1584893, 1621810, 1659587, 1698244,
    1737801, 1778279, 1819701, 1862087, 1905461, 1949845, 1995262, 2041738,
    2089296, 2137962, 2187762, 2238721, 2290868, 2344229, 2398833, 2454709,
    2511886, 2570396, 2630268, 2691535, 2754229, 2818383, 2884032, 2951209,
    3019952, 3090295, 3162278, 3235937, 3311311, 3388442, 3467369, 3548134,
    3630781, 3715352, 3801894, 3890451, 3981072, 4073803, 4168694, 4265795,
    4365158, 4466836, 4570882, 4677351, 4786301, 4897788, 5011872, 5128614,
    5248075, 5370318, 5495409, 5623413, 5754399, 5888437, 6025596, 6165950,
    6309573, 6456542, 6606934, 6760830, 6918310, 7079458, 7244360, 7413102,
    7585776, 7762471, 7943282, 8128305, 8317638, 8511380, 8709636, 8912509,
    9120108, 9332543, 9549926, 9772372, 10000000 >>

\* 10^(f / 10^4) scaled by 10^6, for 0 <= f < 10^4: a value in [10^6, 10^7)
Pow10Mant(f) ==
    LET k == f \div 100
        r == f % 100
    IN  TenPow[k + 1] + ((TenPow[k + 2] - TenPow[k + 1]) * r) \div 100

\* 10^(x / 10^4) as mantissa and decimal exponent: value = m * 10^(e - 6)
Pow10(x) == [m |-> Pow10Mant(x % 10^4), e |-> x \div 10^4]

\* 10^(x / 10^4) scaled by 10^scale, as an integer (0 when it underflows)
Pow10Fixed(x, scale) ==
    LET p == Pow10(x)
        s == p.e - 6 + scale
    IN  IF s >= 0 THEN p.m * 10^s
        ELSE IF s < -7 THEN 0
        ELSE RoundDiv(p.m, 10^(-s))

\* log10(m / 10^6) in 10^-4 decades, for m in [10^6, 10^7]: the inverse of
\* Pow10Mant
Log10Mant(m) ==
    LET k == CHOOSE i \in 0..99 : TenPow[i + 1] <= m /\ (m < TenPow[i + 2] \/ i = 99)
    IN  100 * k + RoundDiv(100 * (m - TenPow[k + 1]), TenPow[k + 2] - TenPow[k + 1])

\* log10(n) in 10^-4 decades, for an integer n >= 1
Log10Int(n) ==
    LET d == Digits(n)
        m == IF d <= 7 THEN n * 10^(7 - d) ELSE n \div 10^(d - 7)
    IN  (d - 1) * 10^4 + Log10Mant(m)

\* log10(n / d) in 10^-4 decades, for integers n >= 1, d >= 1 (n, d < 2147):
\* the quotient is formed first, as the code forms it
Log10Ratio(n, d) == Log10Int(MulDiv(n, 10^6, d)) - 6 * 10^4

\* ------------------------------------------------------------------------
\* Floating-point sound energies: value = m * 10^e with m = 0 or
\* 10^(FloatDigits-1) <= m < 10^FloatDigits.
\* ------------------------------------------------------------------------

FloatDigits == 5

FZero == [m |-> 0, e |-> 0]

\* s * 10^e rounded to FloatDigits significant digits (s >= 0)
FNormalize(s, e) ==
    IF s = 0 THEN FZero
    ELSE LET d == Digits(s)
         IN  IF d <= FloatDigits
             THEN [m |-> s * 10^(FloatDigits - d), e |-> e - (FloatDigits - d)]
             ELSE LET r == RoundDiv(s, 10^(d - FloatDigits))
                  IN  IF r = 10^FloatDigits
                      THEN [m |-> 10^(FloatDigits - 1), e |-> e + (d - FloatDigits) + 1]
                      ELSE [m |-> r, e |-> e + (d - FloatDigits)]

\* a + b, rounded once (two guard digits)
FAdd(a, b) ==
    IF a.m = 0 THEN b
    ELSE IF b.m = 0 THEN a
    ELSE LET hi == IF a.e >= b.e THEN a ELSE b
             lo == IF a.e >= b.e THEN b ELSE a
             shift == hi.e - lo.e
         IN  IF shift <= 2
             THEN FNormalize(hi.m * 10^shift + lo.m, lo.e)
             ELSE IF shift > FloatDigits + 2 THEN hi
             ELSE FNormalize(hi.m * 100 + lo.m \div 10^(shift - 2), hi.e - 2)

\* ------------------------------------------------------------------------
\* Sound levels.  -Infinity (the level of zero energy) is a value below
\* every level.
\* ------------------------------------------------------------------------

NegInfinity == 0 - 10^9

\* Math.pow(10, l / 10)
LevelToEnergy(l) ==
    IF l = NegInfinity THEN FZero
    ELSE LET p == Pow10(l) IN FNormalize(p.m, p.e - 6)

\* 10 * Math.log10(sum)
EnergyToLevel(a) ==
    IF a.m = 0 THEN NegInfinity
    ELSE (a.e + FloatDigits - 1) * 10^4 + Log10Mant(a.m * 10^(7 - FloatDigits))

RECURSIVE ReduceEnergySkipFirst(_, _, _)
\* a reduce that leaves out the element it starts at
ReduceEnergySkipFirst(levels, i, acc) ==
    IF i + 1 > Len(levels) THEN acc
    ELSE ReduceEnergySkipFirst(levels, i + 1, FAdd(acc, LevelToEnergy(levels[i + 1])))

RECURSIVE ReduceEnergy(_, _, _)
\* levels.reduce((acc, l) => acc + Math.pow(10, l / 10), 0), from index i
ReduceEnergy(levels, i, acc) ==
    IF i > Len(levels) THEN acc
    ELSE ReduceEnergy(levels, i + 1, FAdd(acc, LevelToEnergy(levels[i])))

\* jetPhysics.sumSoundLevels
sumSoundLevels(levels) ==
    IF Len(levels) = 0 THEN 0
    ELSE EnergyToLevel(ReduceEnergy(levels, 1, FZero))

\* a room-acoustics summer with the jet module's empty result
sumLevelsZeroOnEmpty(levels) ==
    IF Len(levels) = 0 THEN 0
    ELSE EnergyToLevel(ReduceEnergy(levels, 1, FZero))

\* acoustics.sumLevels
sumLevels(levels) ==
    IF Len(levels) = 0 THEN NegInfinity
    ELSE EnergyToLevel(ReduceEnergy(levels, 1, FZero))

\* acoustics.getDirectivityQ: distance to consider "near wall", mm
wallThreshold == 500

\* nearWallX / nearWallZ: Math.abs(p) > half - wallThreshold, with both
\* sides doubled so that a room of odd extent needs no halving
NearWall(p, extent) == 2 * Abs(p) > extent - 2 * wallThreshold

\* a directivity factor that also counts a source exactly at the threshold
getDirectivityQInclusive(mounting, position, rm) ==
    LET nearWallX == 2 * Abs(position.x) >= rm.length - 2 * wallThreshold
        nearWallZ == 2 * Abs(position.z) >= rm.width - 2 * wallThreshold
    IN  IF mounting = "ceiling"
        THEN IF nearWallX /\ nearWallZ THEN 8
             ELSE IF nearWallX \/ nearWallZ THEN 4
             ELSE 2
        ELSE IF mounting = "wall" THEN 4
        ELSE 2

\* acoustics.getDirectivityQ
getDirectivityQ(mounting, position, rm) ==
    LET nearWallX == NearWall(position.x, rm.length)
        nearWallZ == NearWall(position.z, rm.width)
    IN  IF mounting = "ceiling"
        THEN IF nearWallX /\ nearWallZ THEN 8
             ELSE IF nearWallX \/ nearWallZ THEN 4
             ELSE 2
        ELSE IF mounting = "wall" THEN 4
        ELSE 2

\* ------------------------------------------------------------------------
\* comfort: categories, draught rate, velocity category
\* ------------------------------------------------------------------------

CATEGORIES ==
    [ I   |-> [maxVelocity |-> 1500, maxDR |-> 1000, label |-> "I"],
      II  |-> [maxVelocity |-> 2000, maxDR |-> 1500, label |-> "II"],
      III |-> [maxVelocity |-> 2500, maxDR |-> 2500, label |-> "III"] ]

\* Math.pow(v - 0.05, 0.62) scaled by 10^4, for x = v - 0.05 > 0 in 10^-4 m/s
PowDraught(x) ==
    Pow10Fixed(RoundDiv(62 * (Log10Int(x) - 4 * 10^4), 100), 4)

\* the draught rate without the clamp to [0, 100]
calcDraughtRateUnclamped(tLocal, v, tu) ==
    IF v <= 500 THEN 0
    ELSE MulDiv(((3400 - tLocal) * ((37 * v * tu) \div 10^4 + 314)) \div 100,
                PowDraught(v - 500), 10^4)

\* calcDraughtRate(tLocal, v, tu): tLocal in 0.01 degC, v in 10^-4 m/s,
\* tu in %, result in 0.01 %
calcDraughtRate(tLocal, v, tu) ==
    IF v <= 500 THEN 0
    ELSE LET turb == (37 * v * tu) \div 10^4 + 314
             dr   == MulDiv(((3400 - tLocal) * turb) \div 100, PowDraught(v - 500), 10^4)
         IN  Max2(0, Min2(100 * 100, dr))

\* the tiers with the boundary values falling into the upper tier
getVelocityCategoryExclusive(maxV) ==
    IF maxV < CATEGORIES.I.maxVelocity THEN "I"
    ELSE IF maxV < CATEGORIES.II.maxVelocity THEN "II"
    ELSE IF maxV < CATEGORIES.III.maxVelocity THEN "III"
    ELSE "FAIL"

getVelocityCategory(maxV) ==
    IF maxV <= CATEGORIES.I.maxVelocity THEN "I"
    ELSE IF maxV <= CATEGORIES.II.maxVelocity THEN "II"
    ELSE IF maxV <= CATEGORIES.III.maxVelocity THEN "III"
    ELSE "FAIL"

\* ------------------------------------------------------------------------
\* diffuserDB: the catalog (d0, slotWidth, lengthDefault in mm; aEff in
\* 10^-5 m2; lwRef in 0.001 dB; k1, kDrall in 1/100; a field the catalog
\* leaves out is 0, which is falsy as undefined is)
\* ------------------------------------------------------------------------

ROOM_TYPES ==
    [ office       |-> [maxDbA |-> 35000, nc |-> 30],
      open_office  |-> [maxDbA |-> 40000, nc |-> 35],
      meeting_room |-> [maxDbA |-> 35000, nc |-> 30],
      classroom    |-> [maxDbA |-> 35000, nc |-> 30],
      hospital     |-> [maxDbA |-> 30000, nc |-> 25],
      restaurant   |-> [maxDbA |-> 45000, nc |-> 40],
      auditorium   |-> [maxDbA |-> 30000, nc |-> 25] ]

DIFFUSER_TYPES ==
  [ swirl |->
      [jetType |-> "radial", coanda |-> TRUE, defaultMounting |-> "ceiling",
       sizes |-> <<
        [name |-> "DN 200", d0 |-> 200, aEff |-> 1600, slotCount |-> 0, slotWidth |-> 0, lengthDefault |-> 0,
          vFlowRange |-> <<100, 200>>, vFlowDefault |-> 150, lwRef |-> 30000, vFlowRef |-> 150,
          k1 |-> 100, halfAngleDeg |-> 50, kDrall |-> 90],
        [name |-> "DN 315", d0 |-> 315, aEff |-> 4000, slotCount |-> 0, slotWidth |-> 0, lengthDefault |-> 0,
          vFlowRange |-> <<200, 500>>, vFlowDefault |-> 350, lwRef |-> 35000, vFlowRef |-> 350,
          k1 |-> 100, halfAngleDeg |-> 50, kDrall |-> 90],
        [name |-> "DN 400", d0 |-> 400, aEff |-> 6400, slotCount |-> 0, slotWidth |-> 0, lengthDefault |-> 0,
          vFlowRange |-> <<300, 800>>, vFlowDefault |-> 500, lwRef |-> 39000, vFlowRef |-> 500,
          k1 |-> 100, halfAngleDeg |-> 50, kDrall |-> 90],
        [name |-> "DN 625", d0 |-> 625, aEff |-> 15600, slotCount |-> 0, slotWidth |-> 0, lengthDefault |-> 0,
          vFlowRange |-> <<800, 2000>>, vFlowDefault |-> 1200, lwRef |-> 46000, vFlowRef |-> 1200,
          k1 |-> 100, halfAngleDeg |-> 50, kDrall |-> 90] >>],
    plateValve |->
      [jetType |-> "hemispherical", coanda |-> FALSE, defaultMounting |-> "ceiling",
       sizes |-> <<
        [name |-> "DN 125", d0 |-> 125, aEff |-> 800, slotCount |-> 0, slotWidth |-> 0, lengthDefault |-> 0,
          vFlowRange |-> <<30, 80>>, vFlowDefault |-> 50, lwRef |-> 20000, vFlowRef |-> 50,
          k1 |-> 80, halfAngleDeg |-> 80, kDrall |-> 0],
        [name |-> "DN 160", d0 |-> 160, aEff |-> 1300, slotCount |-> 0, slotWidth |-> 0, lengthDefault |-> 0,
          vFlowRange |-> <<50, 150>>, vFlowDefault |-> 100, lwRef |-> 25000, vFlowRef |-> 100,
          k1 |-> 80, halfAngleDeg |-> 80, kDrall |-> 0],
        [name |-> "DN 200", d0 |-> 200, aEff |-> 2000, slotCount |-> 0, slotWidth |-> 0, lengthDefault |-> 0,
          vFlowRange |-> <<80, 250>>, vFlowDefault |-> 150, lwRef |-> 30000, vFlowRef |-> 150,
          k1 |-> 80, halfAngleDeg |-> 80, kDrall |-> 0],
        [name |-> "DN 250", d0 |-> 250, aEff |-> 3100, slotCount |-> 0, slotWidth |-> 0, lengthDefault |-> 0,
          vFlowRange |-> <<120, 400>>, vFlowDefault |-> 250, lwRef |-> 33000, vFlowRef |-> 250,
          k1 |-> 80, halfAngleDeg |-> 80, kDrall |-> 0] >>],
    slot |->
      [jetType |-> "planar", coanda |-> TRUE, defaultMounting |-> "ceiling",
       sizes |-> <<
        [name |-> "1-Schlitz", d0 |-> 0, aEff |-> 0, slotCount |-> 1, slotWidth |-> 15, lengthDefault |-> 1000,
          vFlowRange |-> <<50, 200>>, vFlowDefault |-> 100, lwRef |-> 25000, vFlowRef |-> 100,
          k1 |-> 120, halfAngleDeg |-> 20, kDrall |-> 0],
        [name |-> "2-Schlitz", d0 |-> 0, aEff |-> 0, slotCount |-> 2, slotWidth |-> 15, lengthDefault |-> 1000,
          vFlowRange |-> <<100, 400>>, vFlowDefault |-> 200, lwRef |-> 30000, vFlowRef |-> 200,
          k1 |-> 120, halfAngleDeg |-> 20, kDrall |-> 0],
        [name |-> "4-Schlitz", d0 |-> 0, aEff |-> 0, slotCount |-> 4, slotWidth |-> 15, lengthDefault |-> 1000,
          vFlowRange |-> <<200, 800>>, vFlowDefault |-> 400, lwRef |-> 35000, vFlowRef |-> 400,
          k1 |-> 120, halfAngleDeg |-> 20, kDrall |-> 0] >>],
    nozzle |->
      [jetType |-> "compact", coanda |-> FALSE, defaultMounting |-> "wall",
       sizes |-> <<
        [name |-> "DN 50", d0 |-> 50, aEff |-> 196, slotCount |-> 0, slotWidth |-> 0, lengthDefault |-> 0,
          vFlowRange |-> <<20, 100>>, vFlowDefault |-> 50, lwRef |-> 27000, vFlowRef |-> 50,
          k1 |-> 135, halfAngleDeg |-> 12, kDrall |-> 0],
        [name |-> "DN 75", d0 |-> 75, aEff |-> 442, slotCount |-> 0, slotWidth |-> 0, lengthDefault |-> 0,
          vFlowRange |-> <<50, 200>>, vFlowDefault |-> 100, lwRef |-> 32000, vFlowRef |-> 100,
          k1 |-> 135, halfAngleDeg |-> 12, kDrall |-> 0],
        [name |-> "DN 100", d0 |-> 100, aEff |-> 785, slotCount |-> 0, slotWidth |-> 0, lengthDefault |-> 0,
          vFlowRange |-> <<100, 500>>, vFlowDefault |-> 250, lwRef |-> 37000, vFlowRef |-> 250,
          k1 |-> 135, halfAngleDeg |-> 12, kDrall |-> 0],
        [name |-> "DN 150", d0 |-> 150, aEff |-> 1767, slotCount |-> 0, slotWidth |-> 0, lengthDefault |-> 0,
          vFlowRange |-> <<200, 1000>>, vFlowDefault |-> 500, lwRef |-> 42000, vFlowRef |-> 500,
          k1 |-> 135, halfAngleDeg |-> 12, kDrall |-> 0] >>],
    dqjSupply |->
      [jetType |-> "radial", coanda |-> TRUE, defaultMounting |-> "ceiling",
       sizes |-> <<
        [name |-> "NW 310", d0 |-> 290, aEff |-> 2800, slotCount |-> 0, slotWidth |-> 0, lengthDefault |-> 0,
          vFlowRange |-> <<100, 500>>, vFlowDefault |-> 250, lwRef |-> 30000, vFlowRef |-> 200,
          k1 |-> 80, halfAngleDeg |-> 45, kDrall |-> 85],
        [name |-> "NW 400", d0 |-> 370, aEff |-> 4500, slotCount |-> 0, slotWidth |-> 0, lengthDefault |-> 0,
          vFlowRange |-> <<150, 700>>, vFlowDefault |-> 400, lwRef |-> 32000, vFlowRef |-> 300,
          k1 |-> 80, halfAngleDeg |-> 45, kDrall |-> 85],
        [name |-> "NW 500", d0 |-> 470, aEff |-> 7200, slotCount |-> 0, slotWidth |-> 0, lengthDefault |-> 0,
          vFlowRange |-> <<200, 1100>>, vFlowDefault |-> 600, lwRef |-> 33000, vFlowRef |-> 500,
          k1 |-> 80, halfAngleDeg |-> 45, kDrall |-> 85],
        [name |-> "NW 600", d0 |-> 570, aEff |-> 10700, slotCount |-> 0, slotWidth |-> 0, lengthDefault |-> 0,
          vFlowRange |-> <<300, 1500>>, vFlowDefault |-> 800, lwRef |-> 35000, vFlowRef |-> 700,
          k1 |-> 80, halfAngleDeg |-> 45, kDrall |-> 85],
        [name |-> "NW 625", d0 |-> 573, aEff |-> 11000, slotCount |-> 0, slotWidth |-> 0, lengthDefault |-> 0,
          vFlowRange |-> <<300, 1600>>, vFlowDefault |-> 900, lwRef |-> 35000, vFlowRef |-> 750,
          k1 |-> 80, halfAngleDeg |-> 45, kDrall |-> 85],
        [name |-> "NW 800", d0 |-> 710, aEff |-> 17000, slotCount |-> 0, slotWidth |-> 0, lengthDefault |-> 0,
          vFlowRange |-> <<500, 2500>>, vFlowDefault |-> 1400, lwRef |-> 40000, vFlowRef |-> 1200,
          k1 |-> 80, halfAngleDeg |-> 45, kDrall |-> 85] >>],
    dqjslcSupply |->
      [jetType |-> "radial", coanda |-> TRUE, defaultMounting |-> "ceiling",
       sizes |-> <<
        [name |-> "NW 125", d0 |-> 123, aEff |-> 600, slotCount |-> 0, slotWidth |-> 0, lengthDefault |-> 0,
          vFlowRange |-> <<30, 150>>, vFlowDefault |-> 80, lwRef |-> 25000, vFlowRef |-> 80,
          k1 |-> 70, halfAngleDeg |-> 50, kDrall |-> 90],
        [name |-> "NW 160", d0 |-> 158, aEff |-> 1000, slotCount |-> 0, slotWidth |-> 0, lengthDefault |-> 0,
          vFlowRange |-> <<50, 250>>, vFlowDefault |-> 130, lwRef |-> 28000, vFlowRef |-> 130,
          k1 |-> 70, halfAngleDeg |-> 50, kDrall |-> 90],
        [name |-> "NW 200", d0 |-> 188, aEff |-> 1450, slotCount |-> 0, slotWidth |-> 0, lengthDefault |-> 0,
          vFlowRange |-> <<70, 400>>, vFlowDefault |-> 200, lwRef |-> 30000, vFlowRef |-> 200,
          k1 |-> 70, halfAngleDeg |-> 50, kDrall |-> 90],
        [name |-> "NW 250", d0 |-> 248, aEff |-> 2500, slotCount |-> 0, slotWidth |-> 0, lengthDefault |-> 0,
          vFlowRange |-> <<100, 600>>, vFlowDefault |-> 300, lwRef |-> 32000, vFlowRef |-> 300,
          k1 |-> 70, halfAngleDeg |-> 50, kDrall |-> 90],
        [name |-> "NW 315", d0 |-> 313, aEff |-> 4000, slotCount |-> 0, slotWidth |-> 0, lengthDefault |-> 0,
          vFlowRange |-> <<200, 1000>>, vFlowDefault |-> 500, lwRef |-> 35000, vFlowRef |-> 500,
          k1 |-> 70, halfAngleDeg |-> 50, kDrall |-> 90] >>] ]

EXHAUST_TYPES ==
  [ ceilingGrille |->
      [jetType |-> "sink", coanda |-> FALSE, defaultMounting |-> "ceiling",
       sizes |-> <<
        [name |-> "225x225", d0 |-> 225, aEff |-> 3000, slotCount |-> 0, slotWidth |-> 0, lengthDefault |-> 0,
          vFlowRange |-> <<50, 250>>, vFlowDefault |-> 150, lwRef |-> 25000, vFlowRef |-> 150,
          k1 |-> 90, halfAngleDeg |-> 45, kDrall |-> 0],
        [name |-> "325x325", d0 |-> 325, aEff |-> 6300, slotCount |-> 0, slotWidth |-> 0, lengthDefault |-> 0,
          vFlowRange |-> <<100, 500>>, vFlowDefault |-> 300, lwRef |-> 30000, vFlowRef |-> 300,
          k1 |-> 90, halfAngleDeg |-> 45, kDrall |-> 0],
        [name |-> "525x525", d0 |-> 525, aEff |-> 16500, slotCount |-> 0, slotWidth |-> 0, lengthDefault |-> 0,
          vFlowRange |-> <<200, 1000>>, vFlowDefault |-> 600, lwRef |-> 35000, vFlowRef |-> 600,
          k1 |-> 90, halfAngleDeg |-> 45, kDrall |-> 0] >>],
    exhaustSwirl |->
      [jetType |-> "sink", coanda |-> FALSE, defaultMounting |-> "ceiling",
       sizes |-> <<
        [name |-> "DN 200", d0 |-> 200, aEff |-> 1600, slotCount |-> 0, slotWidth |-> 0, lengthDefault |-> 0,
          vFlowRange |-> <<100, 200>>, vFlowDefault |-> 150, lwRef |-> 30000, vFlowRef |-> 150,
          k1 |-> 90, halfAngleDeg |-> 45, kDrall |-> 0],
        [name |-> "DN 315", d0 |-> 315, aEff |-> 4000, slotCount |-> 0, slotWidth |-> 0, lengthDefault |-> 0,
          vFlowRange |-> <<200, 500>>, vFlowDefault |-> 350, lwRef |-> 35000, vFlowRef |-> 350,
          k1 |-> 90, halfAngleDeg |-> 45, kDrall |-> 0],
        [name |-> "DN 400", d0 |-> 400, aEff |-> 6400, slotCount |-> 0, slotWidth |-> 0, lengthDefault |-> 0,
          vFlowRange |-> <<300, 800>>, vFlowDefault |-> 500, lwRef |-> 39000, vFlowRef |-> 500,
          k1 |-> 90, halfAngleDeg |-> 45, kDrall |-> 0],
        [name |-> "DN 625", d0 |-> 625, aEff |-> 15600, slotCount |-> 0, slotWidth |-> 0, lengthDefault |-> 0,
          vFlowRange |-> <<800, 2000>>, vFlowDefault |-> 1200, lwRef |-> 46000, vFlowRef |-> 1200,
          k1 |-> 90, halfAngleDeg |-> 45, kDrall |-> 0] >>],
    exhaustPlateValve |->
      [jetType |-> "sink", coanda |-> FALSE, defaultMounting |-> "ceiling",
       sizes |-> <<
        [name |-> "DN 125", d0 |-> 125, aEff |-> 800, slotCount |-> 0, slotWidth |-> 0, lengthDefault |-> 0,
          vFlowRange |-> <<30, 80>>, vFlowDefault |-> 50, lwRef |-> 20000, vFlowRef |-> 50,
          k1 |-> 80, halfAngleDeg |-> 45, kDrall |-> 0],
        [name |-> "DN 160", d0 |-> 160, aEff |-> 1300, slotCount |-> 0, slotWidth |-> 0, lengthDefault |-> 0,
          vFlowRange |-> <<50, 150>>, vFlowDefault |-> 100, lwRef |-> 25000, vFlowRef |-> 100,
          k1 |-> 80, halfAngleDeg |-> 45, kDrall |-> 0],
        [name |-> "DN 200", d0 |-> 200, aEff |-> 2000, slotCount |-> 0, slotWidth |-> 0, lengthDefault |-> 0,
          vFlowRange |-> <<80, 250>>, vFlowDefault |-> 150, lwRef |-> 30000, vFlowRef |-> 150,
          k1 |-> 80, halfAngleDeg |-> 45, kDrall |-> 0],
        [name |-> "DN 250", d0 |-> 250, aEff |-> 3100, slotCount |-> 0, slotWidth |-> 0, lengthDefault |-> 0,
          vFlowRange |-> <<120, 400>>, vFlowDefault |-> 250, lwRef |-> 33000, vFlowRef |-> 250,
          k1 |-> 80, halfAngleDeg |-> 45, kDrall |-> 0] >>],
    dqjExhaust |->
      [jetType |-> "sink", coanda |-> FALSE, defaultMounting |-> "ceiling",
       sizes |-> <<
        [name |-> "NW 310", d0 |-> 290, aEff |-> 3300, slotCount |-> 0, slotWidth |-> 0, lengthDefault |-> 0,
          vFlowRange |-> <<100, 600>>, vFlowDefault |-> 300, lwRef |-> 28000, vFlowRef |-> 250,
          k1 |-> 90, halfAngleDeg |-> 45, kDrall |-> 0],
        [name |-> "NW 400", d0 |-> 370, aEff |-> 5400, slotCount |-> 0, slotWidth |-> 0, lengthDefault |-> 0,
          vFlowRange |-> <<150, 800>>, vFlowDefault |-> 450, lwRef |-> 30000, vFlowRef |-> 350,
          k1 |-> 90, halfAngleDeg |-> 45, kDrall |-> 0],
        [name |-> "NW 500", d0 |-> 470, aEff |-> 8700, slotCount |-> 0, slotWidth |-> 0, lengthDefault |-> 0,
          vFlowRange |-> <<200, 1200>>, vFlowDefault |-> 650, lwRef |-> 32000, vFlowRef |-> 550,
          k1 |-> 90, halfAngleDeg |-> 45, kDrall |-> 0],
        [name |-> "NW 600", d0 |-> 570, aEff |-> 12800, slotCount |-> 0, slotWidth |-> 0, lengthDefault |-> 0,
          vFlowRange |-> <<300, 1600>>, vFlowDefault |-> 900, lwRef |-> 34000, vFlowRef |-> 750,
          k1 |-> 90, halfAngleDeg |-> 45, kDrall |-> 0],
        [name |-> "NW 625", d0 |-> 573, aEff |-> 13000, slotCount |-> 0, slotWidth |-> 0, lengthDefault |-> 0,
          vFlowRange |-> <<300, 1700>>, vFlowDefault |-> 950, lwRef |-> 34000, vFlowRef |-> 800,
          k1 |-> 90, halfAngleDeg |-> 45, kDrall |-> 0],
        [name |-> "NW 800", d0 |-> 710, aEff |-> 20000, slotCount |-> 0, slotWidth |-> 0, lengthDefault |-> 0,
          vFlowRange |-> <<500, 2800>>, vFlowDefault |-> 1500, lwRef |-> 38000, vFlowRef |-> 1300,
          k1 |-> 90, halfAngleDeg |-> 45, kDrall |-> 0] >>],
    exhaustSlot |->
      [jetType |-> "sink", coanda |-> FALSE, defaultMounting |-> "ceiling",
       sizes |-> <<
        [name |-> "1-Schlitz", d0 |-> 15, aEff |-> 1500, slotCount |-> 1, slotWidth |-> 15, lengthDefault |-> 1000,
          vFlowRange |-> <<50, 200>>, vFlowDefault |-> 100, lwRef |-> 25000, vFlowRef |-> 100,
          k1 |-> 90, halfAngleDeg |-> 45, kDrall |-> 0],
        [name |-> "2-Schlitz", d0 |-> 30, aEff |-> 3000, slotCount |-> 2, slotWidth |-> 15, lengthDefault |-> 1000,
          vFlowRange |-> <<100, 400>>, vFlowDefault |-> 200, lwRef |-> 30000, vFlowRef |-> 200,
          k1 |-> 90, halfAngleDeg |-> 45, kDrall |-> 0],
        [name |-> "4-Schlitz", d0 |-> 60, aEff |-> 6000, slotCount |-> 4, slotWidth |-> 15, lengthDefault |-> 1000,
          vFlowRange |-> <<200, 800>>, vFlowDefault |-> 400, lwRef |-> 35000, vFlowRef |-> 400,
          k1 |-> 90, halfAngleDeg |-> 45, kDrall |-> 0] >>] ]


\* null, for a value that is a record otherwise
Null == [null |-> TRUE]

\* null, for a value that is a string otherwise
NullStr == "null"

\* null and a number, for a value that is a number or null
None == << >>

Some(x) == << x >>

getType(typeKey) ==
    IF typeKey \in DOMAIN DIFFUSER_TYPES THEN DIFFUSER_TYPES[typeKey]
    ELSE IF typeKey \in DOMAIN EXHAUST_TYPES THEN EXHAUST_TYPES[typeKey]
    ELSE Null

getSize(typeKey, sizeIndex) ==
    LET type == getType(typeKey)
    IN  IF type = Null THEN Null
        ELSE IF sizeIndex < 0 \/ sizeIndex >= Len(type.sizes) THEN Null
        ELSE type.sizes[sizeIndex + 1]

getExhaustType(typeKey) ==
    IF typeKey \in DOMAIN EXHAUST_TYPES THEN EXHAUST_TYPES[typeKey] ELSE Null

getExhaustSize(typeKey, sizeIndex) ==
    IF typeKey \notin DOMAIN EXHAUST_TYPES THEN Null
    ELSE IF sizeIndex < 0 \/ sizeIndex >= Len(EXHAUST_TYPES[typeKey].sizes) THEN Null
    ELSE EXHAUST_TYPES[typeKey].sizes[sizeIndex + 1]

computeSlotAeff(sizeData, slotLengthMm) ==
    (sizeData.slotCount * sizeData.slotWidth * slotLengthMm) \div 10

getEffectiveArea(typeKey, sizeData, slotLengthMm) ==
    IF typeKey = "slot" \/ typeKey = "exhaustSlot"
    THEN computeSlotAeff(sizeData,
                         IF slotLengthMm # 0 THEN slotLengthMm ELSE sizeData.lengthDefault)
    ELSE sizeData.aEff

getRoomTypeLimit(roomTypeKey) ==
    IF roomTypeKey \in DOMAIN ROOM_TYPES THEN ROOM_TYPES[roomTypeKey]
    ELSE ROOM_TYPES.meeting_room

\* ------------------------------------------------------------------------
\* jetPhysics
\* ------------------------------------------------------------------------

\* gravitational acceleration, 0.01 m/s2
G == 981

\* air density, 0.1 kg/m3
RHO == 12

\* terminal velocity, 10^-4 m/s
V_TERMINAL == 2000

\* Math.SQRT2 * x
TimesSqrt2(x) == MulDiv(x, 14142, 10^4)

\* Math.sin of an angle in degrees, scaled by 10^4: the half angles of the
\* catalog and the multiples of 15 degrees (the rotation steps)
SinDeg(deg) ==
    LET a == deg % 360
        b == IF a >= 180 THEN a - 180 ELSE a
        c == IF b > 90 THEN 180 - b ELSE b
        q == CASE c = 0 -> 0
               [] c = 12 -> 2079
               [] c = 15 -> 2588
               [] c = 20 -> 3420
               [] c = 30 -> 5000
               [] c = 45 -> 7071
               [] c = 50 -> 7660
               [] c = 60 -> 8660
               [] c = 75 -> 9659
               [] c = 80 -> 9848
               [] c = 90 -> 10^4
    IN  IF a >= 180 THEN 0 - q ELSE q

CosDeg(deg) == SinDeg(deg + 90)

\* Math.exp(-t) scaled by 10^6, t >= 0 given as t1000 = 1000 t
ExpNeg(t1000) ==
    IF t1000 > 20000 THEN 0
    ELSE Pow10Fixed(0 - (t1000 * 43429) \div 10^4, 6)

\* v * f / 10^6 for a factor f scaled by 10^6 (0 <= f <= 10^6)
Scale6(v, f) == (v * (f \div 1000) + (v * (f % 1000)) \div 1000) \div 1000

\* pressure loss coefficient per type, in 1/10
getZeta(typeKey) ==
    LET zetas == [ swirl |-> 20, plateValve |-> 25, slot |-> 18, nozzle |-> 15,
                   ceilingGrille |-> 20, exhaustSwirl |-> 20,
                   exhaustPlateValve |-> 25, exhaustSlot |-> 18,
                   dqjSupply |-> 22, dqjExhaust |-> 20, dqjslcSupply |-> 25 ]
    IN  IF typeKey \in DOMAIN zetas THEN zetas[typeKey] ELSE 20

\* The closure createVelocityFunction returns, as the values it captures.
createVelocityFunction(typeKey, sizeData, v0, d0, k1, coreLength) ==
    IF typeKey = "slot"
    THEN [kind |-> "slot", s |-> sizeData.slotWidth, v0 |-> v0, d0 |-> d0,
          k1 |-> k1, coreLength |-> coreLength]
    ELSE [kind |-> "round", s |-> 0, v0 |-> v0, d0 |-> d0,
          k1 |-> k1, coreLength |-> coreLength]

\* k1 * v0 * Math.sqrt(s / x), x > 0 in mm
SlotDecay(k1, v0, s, x) ==
    MulDiv((k1 * v0) \div 100, Sqrt((s * 10^8) \div x), 10^4)

\* a decay function without the core zone
velocityAtDistanceNoCore(fn, x) ==
    IF x <= 0 THEN fn.v0
    ELSE IF fn.kind = "slot" THEN SlotDecay(fn.k1, fn.v0, fn.s, x)
    ELSE MulDiv(fn.k1 * fn.v0, fn.d0, 100) \div x

\* Calling the closure: velocityAtDistance(x), x in mm
velocityAtDistance(fn, x) ==
    IF x <= 0 THEN fn.v0
    ELSE IF x <= fn.coreLength THEN fn.v0
    ELSE IF fn.kind = "slot" THEN SlotDecay(fn.k1, fn.v0, fn.s, x)
    ELSE MulDiv(fn.k1 * fn.v0, fn.d0, 100) \div x

throwEstimate(v0, d0, k1) == MulDiv(k1 * v0, d0, 100 * V_TERMINAL)

\* detachmentPoint is None or Some(mm); halfAngleDeg stands for halfAngle
calcMaxVelocityInOccupied(typeKey, sizeData, v0, d0, k1, halfAngleDeg, roomHeight, hasCoanda, detachmentPoint, slotDirection) ==
    IF typeKey \in {"swirl", "dqjSupply", "dqjslcSupply"}
    THEN LET dropHeight == roomHeight - 1800
             kDrall == IF sizeData.kDrall # 0 THEN sizeData.kDrall ELSE 90
             effectiveR ==
                 Max2(1000, IF detachmentPoint # None /\ detachmentPoint[1] # 0
                            THEN detachmentPoint[1]
                            ELSE throwEstimate(v0, d0, k1))
             vAtR == ((MulDiv(k1 * v0, d0, 100) \div effectiveR) * kDrall) \div 100
             ratio == (dropHeight * 1000) \div effectiveR
             vInOccupied == Scale6(vAtR, ExpNeg((ratio * ratio) \div 20))
         IN  IF dropHeight <= 0 THEN v0 ELSE Max2(0, vInOccupied)
    ELSE IF typeKey = "nozzle"
    THEN LET distToOccupied ==
                 IF roomHeight > 3000
                 THEN MulDiv(roomHeight - 1500, 10^4, SinDeg(halfAngleDeg))
                 ELSE 3000
         IN  velocityAtDistance(
                 createVelocityFunction(typeKey, sizeData, v0, d0, k1, 5 * d0),
                 distToOccupied)
    ELSE IF typeKey = "plateValve"
    THEN LET dropHeight == roomHeight - 1800
         IN  IF dropHeight <= 0 THEN v0
             ELSE velocityAtDistance(
                      createVelocityFunction(typeKey, sizeData, v0, d0, k1, 5 * d0),
                      dropHeight)
    ELSE IF typeKey = "slot"
    THEN LET dropHeight == roomHeight - 1800
             vAtDrop == SlotDecay(k1, v0, sizeData.slotWidth, Max2(dropHeight, 100))
         IN  IF dropHeight <= 0 THEN v0
             ELSE IF slotDirection = "vertical" THEN vAtDrop
             ELSE vAtDrop \div 2
    ELSE 0

\* a Coanda condition that forgets the vertical slot
HasCoandaAnySlot(typeKey, mounting, slotDirection) ==
    LET typeInfo == getType(typeKey)
    IN  typeInfo # Null /\ typeInfo.coanda /\ mounting = "ceiling"

\* hasCoanda of calculateOutlet
HasCoanda(typeKey, mounting, slotDirection) ==
    LET isCeiling == mounting = "ceiling"
        typeInfo == getType(typeKey)
    IN  /\ typeInfo # Null
        /\ typeInfo.coanda
        /\ isCeiling
        /\ ~(typeKey = "slot" /\ slotDirection = "vertical")

\* an Archimedes number computed for every temperature difference
ArchimedesNoThreshold(deltaT, d0, roomTemp, v0) ==
    MulDiv((((G * deltaT * d0) \div (roomTemp + 27315)) * 10^4) \div v0, 10^4, v0)

\* Ar = G * deltaT * d0 / ((roomTemp + 273.15) * v0 * v0), in 10^-5
Archimedes(deltaT, d0, roomTemp, v0) ==
    IF deltaT > 10
    THEN MulDiv((((G * deltaT * d0) \div (roomTemp + 27315)) * 10^4) \div v0, 10^4, v0)
    ELSE 0

\* the detachment point of calculateOutlet: None, or Some(mm)
DetachmentPoint(hasCoanda, Ar, supplyTemp, roomTemp, throwDistanceCoanda) ==
    IF hasCoanda /\ Ar > 1000 /\ supplyTemp < roomTemp
    THEN Some(Min2(MulDiv(throwDistanceCoanda, 500, Sqrt(Ar * 10)), throwDistanceCoanda))
    ELSE None

\* L_W = L_W_ref + 50 * log10(V / V_ref)
SoundPower(sizeData, volumeFlow) ==
    sizeData.lwRef + 5 * Log10Ratio(volumeFlow, sizeData.vFlowRef)

\* 0.5 * RHO * v0 * v0 * zeta, in 0.01 Pa
PressureDrop(v0, zeta) ==
    MulDiv((v0 \div 10) * (v0 \div 10), (RHO \div 2) * zeta, 10^6)

\* an exhaust result that keeps the exit velocity as occupied-zone velocity
ExhaustResultWithJet(v0, suctionReach, coreLength, halfAngleDeg, lwA, lpAt3m, pressureDrop, aEff, velocityFn) ==
    [ outletCategory |-> "exhaust", exitVelocity |-> v0,
      throwDistance |-> suctionReach, throwDistanceFree |-> suctionReach,
      throwDistanceCoanda |-> None, coreLength |-> coreLength,
      halfAngle |-> halfAngleDeg, archimedesNumber |-> 0, detachmentPoint |-> None,
      soundPowerLevel |-> lwA, soundPressureAt3m |-> lpAt3m,
      pressureDrop |-> pressureDrop, maxVelocityOccupied |-> v0,
      effectiveArea |-> aEff, velocityAtDistance |-> velocityFn,
      slotDirection |-> NullStr ]

\* the result record of calculateOutlet's exhaust branch
ExhaustResult(v0, suctionReach, coreLength, halfAngleDeg, lwA, lpAt3m, pressureDrop, aEff, velocityFn) ==
    [ outletCategory |-> "exhaust",
      exitVelocity |-> v0,
      throwDistance |-> suctionReach,
      throwDistanceFree |-> suctionReach,
      throwDistanceCoanda |-> None,
      coreLength |-> coreLength,
      halfAngle |-> halfAngleDeg,
      archimedesNumber |-> 0,
      detachmentPoint |-> None,
      soundPowerLevel |-> lwA,
      soundPressureAt3m |-> lpAt3m,
      pressureDrop |-> pressureDrop,
      maxVelocityOccupied |-> 0,
      effectiveArea |-> aEff,
      velocityAtDistance |-> velocityFn,
      slotDirection |-> NullStr ]

calculateOutlet(outlet, room) ==
    LET typeKey == outlet.typeKey
        sizeData == outlet.sizeData
        volumeFlow == outlet.volumeFlow
        supplyTemp == outlet.supplyTemp
        slotDirection == outlet.slotDirection
        height == room.height
        roomTemp == room.temperature
        aEff == getEffectiveArea(typeKey, sizeData, outlet.slotLength)
        v0 == MulDiv(volumeFlow * 10^5, 100, 36 * aEff)
        d0 == IF sizeData.d0 # 0 THEN sizeData.d0
              ELSE Sqrt(MulDiv(40 * aEff, 10^4, 31416))
        coreLength == 5 * d0
        k1 == sizeData.k1
        halfAngleDeg == IF sizeData.halfAngleDeg # 0 THEN sizeData.halfAngleDeg ELSE 20
        lwA == SoundPower(sizeData, volumeFlow)
        lpAt3m == lwA - 2 * Log10Int(3) - 8000
        pressureDrop == PressureDrop(v0, getZeta(typeKey))
        velocityFn == createVelocityFunction(typeKey, sizeData, v0, d0, k1, coreLength)
    IN  IF outlet.outletCategory = "exhaust"
        THEN ExhaustResult(v0, MulDiv(k1 * v0, d0, 100 * V_TERMINAL), coreLength,
                           halfAngleDeg, lwA, lpAt3m, pressureDrop, aEff, velocityFn)
        ELSE LET throwDistanceFree ==
                     IF typeKey = "slot"
                     THEN LET r == (k1 * v0) \div 200
                          IN  MulDiv(r * r, sizeData.slotWidth, 10^6)
                     ELSE MulDiv(k1 * v0, d0, 100 * V_TERMINAL)
                 hasCoanda == HasCoanda(typeKey, outlet.mounting, slotDirection)
                 throwDistanceCoanda ==
                     IF hasCoanda THEN TimesSqrt2(throwDistanceFree) ELSE throwDistanceFree
                 throwDistance ==
                     IF hasCoanda THEN throwDistanceCoanda ELSE throwDistanceFree
                 deltaT == Abs(roomTemp - supplyTemp)
                 Ar == Archimedes(deltaT, d0, roomTemp, v0)
                 detachmentPoint ==
                     DetachmentPoint(hasCoanda, Ar, supplyTemp, roomTemp, throwDistanceCoanda)
                 maxVelocityOccupied ==
                     calcMaxVelocityInOccupied(typeKey, sizeData, v0, d0, k1, halfAngleDeg,
                                               height, hasCoanda, detachmentPoint, slotDirection)
             IN  [ outletCategory |-> "supply",
                   exitVelocity |-> v0,
                   throwDistance |-> throwDistance,
                   throwDistanceFree |-> throwDistanceFree,
                   throwDistanceCoanda |->
                       IF hasCoanda THEN Some(throwDistanceCoanda) ELSE None,
                   coreLength |-> coreLength,
                   halfAngle |-> halfAngleDeg,
                   archimedesNumber |-> Ar,
                   detachmentPoint |-> detachmentPoint,
                   soundPowerLevel |-> lwA,
                   soundPressureAt3m |-> lpAt3m,
                   pressureDrop |-> pressureDrop,
                   maxVelocityOccupied |-> maxVelocityOccupied,
                   effectiveArea |-> aEff,
                   velocityAtDistance |-> velocityFn,
                   slotDirection |-> slotDirection ]

\* ------------------------------------------------------------------------
\* jetInteraction: vector superposition.  Points and offsets in mm,
\* direction vectors scaled by 10^4, rotation in degrees.
\* ------------------------------------------------------------------------

\* (x, y, z) / len
Scaled(x, y, z, len) ==
    IF len < 10 THEN [x |-> 0, y |-> 0 - 10^4, z |-> 0]
    ELSE [x |-> RoundDiv(x * 10^4, len),
          y |-> RoundDiv(y * 10^4, len),
          z |-> RoundDiv(z * 10^4, len)]

_normalize(x, y, z) == Scaled(x, y, z, Sqrt(x * x + y * y + z * z))

_getJetDirection(outlet, dx, dy, dz, horizontalDist, totalDist) ==
    LET typeKey == outlet.typeKey
        rotation == outlet.rotation
        hx == IF horizontalDist > 10 THEN RoundDiv(dx * 10^4, horizontalDist) ELSE 0
        hz == IF horizontalDist > 10 THEN RoundDiv(dz * 10^4, horizontalDist) ELSE 0
    IN  IF horizontalDist < 10 /\ Abs(dy) > 10
        THEN [x |-> 0, y |-> IF dy > 0 THEN 10^4 ELSE 0 - 10^4, z |-> 0]
        ELSE IF typeKey \in {"swirl", "exhaustSwirl", "dqjSupply", "dqjExhaust", "dqjslcSupply"}
        THEN _normalize(hx, 0 - 1500, hz)
        ELSE IF typeKey \in {"slot", "exhaustSlot"}
        THEN LET slotDir == IF outlet.slotDirection # NullStr
                            THEN outlet.slotDirection ELSE "bidirectional"
                 perpX == 0 - SinDeg(rotation)
                 perpZ == CosDeg(rotation)
                 projDist == dx * perpX + dz * perpZ
                 sign == IF projDist >= 0 THEN 1 ELSE 0 - 1
             IN  IF slotDir = "vertical" THEN [x |-> 0, y |-> 0 - 10^4, z |-> 0]
                 ELSE IF slotDir = "unidirectional"
                 THEN _normalize(SinDeg(rotation), 0 - 1000, CosDeg(rotation))
                 ELSE _normalize(sign * perpX, 0 - 1000, sign * perpZ)
        ELSE IF typeKey = "nozzle"
        THEN _normalize(hx \div 2, 0 - 8500, hz \div 2)
        ELSE IF typeKey \in {"plateValve", "exhaustPlateValve"}
        THEN _normalize((hx * 4) \div 10, 0 - 9000, (hz * 4) \div 10)
        ELSE IF typeKey = "ceilingGrille"
        THEN _normalize(hx \div 5, 0 - 9500, hz \div 5)
        ELSE _normalize(RoundDiv(dx * 10^4, totalDist),
                        RoundDiv(dy * 10^4, totalDist),
                        RoundDiv(dz * 10^4, totalDist))

\* Math.sqrt(vx * vx + vy * vy + vz * vz)
Magnitude(vx, vy, vz) ==
    IF Max2(Abs(vx), Max2(Abs(vy), Abs(vz))) < 26000
    THEN Sqrt(vx * vx + vy * vy + vz * vz)
    ELSE 10 * Sqrt((Abs(vx) \div 10) * (Abs(vx) \div 10)
                   + (Abs(vy) \div 10) * (Abs(vy) \div 10)
                   + (Abs(vz) \div 10) * (Abs(vz) \div 10))

ZeroVector == [x |-> 0, y |-> 0, z |-> 0]

AddVector(a, b) == [x |-> a.x + b.x, y |-> a.y + b.y, z |-> a.z + b.z]

\* dir * speed, added whatever the category
DirectedAlwaysAdded(outlet, speed, dir) ==
    [x |-> RoundDiv(dir.x * speed, 10^4),
     y |-> RoundDiv(dir.y * speed, 10^4),
     z |-> RoundDiv(dir.z * speed, 10^4)]

\* dir * speed, subtracted for an exhaust and added for a supply outlet
Directed(outlet, speed, dir) ==
    IF outlet.outletCategory = "exhaust"
    THEN [x |-> 0 - RoundDiv(dir.x * speed, 10^4),
          y |-> 0 - RoundDiv(dir.y * speed, 10^4),
          z |-> 0 - RoundDiv(dir.z * speed, 10^4)]
    ELSE [x |-> RoundDiv(dir.x * speed, 10^4),
          y |-> RoundDiv(dir.y * speed, 10^4),
          z |-> RoundDiv(dir.z * speed, 10^4)]

\* speed * Math.exp(-(verticalDist^2) / (2 * sigma^2)), sigma = 0.12 *
\* horizontalDist; ratio = 1000 * verticalDist / horizontalDist
VerticalDecay(speed, ratio) ==
    Scale6(speed, ExpNeg(MulDiv(ratio * ratio, 10, 288)))

\* the scalar speed of the outlet at the point: velocityAtDistance, with the
\* Gaussian vertical decay for ceiling-mounted supply outlets
SpeedAt(outlet, horizontalDist, verticalDist, totalDist) ==
    IF outlet.outletCategory # "exhaust" /\ outlet.mounting = "ceiling"
       /\ horizontalDist > 100
    THEN VerticalDecay(velocityAtDistance(outlet.jetResult.velocityAtDistance, totalDist),
                       (verticalDist * 1000) \div horizontalDist)
    ELSE velocityAtDistance(outlet.jetResult.velocityAtDistance, totalDist)

\* the loop body of getVelocityVectorAt from the speed test on
ContributionOfSpeed(outlet, dx, dy, dz, horizontalDist, totalDist, speed) ==
    IF speed < 10 THEN ZeroVector
    ELSE Directed(outlet, speed,
                  _getJetDirection(outlet, dx, dy, dz, horizontalDist, totalDist))

\* a loop body without the test for the point at the outlet itself
ContributionAtAnyDistance(outlet, dx, dy, dz, horizontalDist, totalDist) ==
    ContributionOfSpeed(outlet, dx, dy, dz, horizontalDist, totalDist,
                        SpeedAt(outlet, horizontalDist, Abs(dy), totalDist))

\* the loop body from the distance test on
ContributionAtDistance(outlet, dx, dy, dz, horizontalDist, totalDist) ==
    IF totalDist < 10 THEN ZeroVector
    ELSE ContributionOfSpeed(outlet, dx, dy, dz, horizontalDist, totalDist,
                             SpeedAt(outlet, horizontalDist, Abs(dy), totalDist))

ContributionAtOffset(outlet, dx, dy, dz, horizontalDist) ==
    ContributionAtDistance(outlet, dx, dy, dz, horizontalDist,
                           Sqrt(horizontalDist * horizontalDist + dy * dy))

ContributionOffset(outlet, dx, dy, dz) ==
    ContributionAtOffset(outlet, dx, dy, dz, Sqrt(dx * dx + dz * dz))

\* One pass of the loop body of getVelocityVectorAt: the vector this outlet
\* adds to (vx, vy, vz); the zero vector where the body says continue.
Contribution(x, y, z, outlet) ==
    IF outlet.jetResult = Null THEN ZeroVector
    ELSE IF outlet.jetResult.velocityAtDistance = Null THEN ZeroVector
    ELSE ContributionOffset(outlet, x - outlet.position3D.x, y - outlet.position3D.y,
                            z - outlet.position3D.z)

RECURSIVE StrongestContribution(_, _, _, _, _, _)
\* a loop that keeps the strongest contribution instead of the sum
StrongestContribution(x, y, z, outlets, i, acc) ==
    IF i > Len(outlets) THEN acc
    ELSE StrongestContribution(x, y, z, outlets, i + 1,
             IF Magnitude(Contribution(x, y, z, outlets[i]).x,
                          Contribution(x, y, z, outlets[i]).y,
                          Contribution(x, y, z, outlets[i]).z)
                > Magnitude(acc.x, acc.y, acc.z)
             THEN Contribution(x, y, z, outlets[i]) ELSE acc)

RECURSIVE SumContributions(_, _, _, _, _, _)
\* the for loop of getVelocityVectorAt from outlet i on, acc = (vx, vy, vz)
SumContributions(x, y, z, outlets, i, acc) ==
    IF i > Len(outlets) THEN acc
    ELSE SumContributions(x, y, z, outlets, i + 1,
                          AddVector(acc, Contribution(x, y, z, outlets[i])))

VectorResult(v) ==
    [vx |-> v.x, vy |-> v.y, vz |-> v.z, magnitude |-> Magnitude(v.x, v.y, v.z)]

getVelocityVectorAt(x, y, z, outlets) ==
    VectorResult(SumContributions(x, y, z, outlets, 1, ZeroVector))

getVelocityMagnitudeAt(x, y, z, outlets) == getVelocityVectorAt(x, y, z, outlets).magnitude

\* ------------------------------------------------------------------------
\* acoustics.generateVelocityHeatmap: the velocity on a horizontal plane.
\* Lengths in mm, velocities in 10^-4 m/s.
\* ------------------------------------------------------------------------

\* Math.ceil(a / b), a >= 0, b > 0
CeilDiv(a, b) == (a + b - 1) \div b

\* v of one outlet in the inner loop of generateVelocityHeatmap
HeatmapSpeed(outlet, horizontalDist, verticalDist, totalDist) ==
    IF outlet.mounting = "ceiling" /\ horizontalDist > 100
    THEN VerticalDecay(velocityAtDistance(outlet.jetResult.velocityAtDistance, totalDist),
                       (verticalDist * 1000) \div horizontalDist)
    ELSE velocityAtDistance(outlet.jetResult.velocityAtDistance, totalDist)

HeatmapSpeedAtOffset(outlet, horizontalDist, verticalDist) ==
    HeatmapSpeed(outlet, horizontalDist, verticalDist,
                 Sqrt(horizontalDist * horizontalDist + verticalDist * verticalDist))

\* one pass of the inner loop: the outlet's v at the cell, 0 where the
\* outlet has no jet result or decay function
HeatmapSpeedAt(outlet, worldX, worldZ, planeHeight) ==
    IF outlet.jetResult = Null THEN 0
    ELSE IF outlet.jetResult.velocityAtDistance = Null THEN 0
    ELSE HeatmapSpeedAtOffset(outlet,
             Sqrt((worldX - outlet.position3D.x) * (worldX - outlet.position3D.x)
                  + (worldZ - outlet.position3D.z) * (worldZ - outlet.position3D.z)),
             Abs(planeHeight - outlet.position3D.y))

RECURSIVE HeatmapMaxV(_, _, _, _, _, _)
\* the inner loop from outlet i on: maxV = Math.max(maxV, v)
HeatmapMaxV(outlets, worldX, worldZ, planeHeight, i, maxV) ==
    IF i > Len(outlets) THEN maxV
    ELSE HeatmapMaxV(outlets, worldX, worldZ, planeHeight, i + 1,
                     Max2(maxV, HeatmapSpeedAt(outlets[i], worldX, worldZ, planeHeight)))

\* worldX = -halfL + ix * gridSpacing, mm
SampleX(room, gridSpacing, ix) == ix * gridSpacing - room.length \div 2

\* worldZ = -halfW + iz * gridSpacing, mm
SampleZ(room, gridSpacing, iz) == iz * gridSpacing - room.width \div 2

\* the grid of generateVelocityHeatmap, indexed from 0 by iz * cols + ix
HeatmapGrid(outlets, room, gridSpacing, planeHeight, cols, rows) ==
    [ idx \in 0..(cols * rows - 1) |->
        HeatmapMaxV(outlets, SampleX(room, gridSpacing, idx % cols),
                    SampleZ(room, gridSpacing, idx \div cols), planeHeight, 1, 0) ]

HeatmapResult(grid, cols, rows, room, gridSpacing, planeHeight) ==
    [ grid |-> grid, cols |-> cols, rows |-> rows,
      minVal |-> CHOOSE v \in { grid[i] : i \in DOMAIN grid } :
                     \A i \in DOMAIN grid : v <= grid[i],
      maxVal |-> CHOOSE v \in { grid[i] : i \in DOMAIN grid } :
                     \A i \in DOMAIN grid : v >= grid[i],
      gridSpacing |-> gridSpacing,
      originX |-> 0 - room.length \div 2,
      originZ |-> 0 - room.width \div 2,
      planeHeight |-> planeHeight ]

HeatmapOfSize(outlets, room, gridSpacing, planeHeight, cols, rows) ==
    HeatmapResult(HeatmapGrid(outlets, room, gridSpacing, planeHeight, cols, rows),
                  cols, rows, room, gridSpacing, planeHeight)

generateVelocityHeatmap(outlets, room, gridSpacing, planeHeight) ==
    HeatmapOfSize(outlets, room, gridSpacing, planeHeight,
                  CeilDiv(room.length, gridSpacing) + 1, CeilDiv(room.width, gridSpacing) + 1)

\* ------------------------------------------------------------------------
\* acoustics: absorption area, sound pressure level, sound heatmap.
\* Absorption coefficients in percent, areas in 10^-4 m2, field strengths
\* in 10^-5 per m2.
\* ------------------------------------------------------------------------

\* acoustics.getDefaultSurfaces: the alpha of each surface
getDefaultSurfaces(roomType) ==
    IF roomType \in {"office", "open_office"}
    THEN [ceiling |-> 85, floor |-> 15, wallNS |-> 5, wallEW |-> 8]
    ELSE IF roomType = "meeting_room"
    THEN [ceiling |-> 85, floor |-> 30, wallNS |-> 5, wallEW |-> 8]
    ELSE IF roomType = "hospital"
    THEN [ceiling |-> 70, floor |-> 3, wallNS |-> 3, wallEW |-> 3]
    ELSE IF roomType = "restaurant"
    THEN [ceiling |-> 50, floor |-> 10, wallNS |-> 5, wallEW |-> 10]
    ELSE [ceiling |-> 85, floor |-> 20, wallNS |-> 5, wallEW |-> 5]

\* the area of a surface of a by b mm, in 0.01 m2
SurfaceArea(a, b) == (a \div 100) * (b \div 100)

\* acoustics.calcAbsorptionArea: Math.max(A, 0.5)
calcAbsorptionArea(room) ==
    LET surfaces == getDefaultSurfaces(room.roomType)
        floorArea == SurfaceArea(room.length, room.width)
        ceilingArea == SurfaceArea(room.length, room.width)
        wallNS == SurfaceArea(room.length, room.height) * 2
        wallEW == SurfaceArea(room.width, room.height) * 2
    IN  Max2(floorArea * surfaces.floor + ceilingArea * surfaces.ceiling
               + wallNS * surfaces.wallNS + wallEW * surfaces.wallEW,
             5000)

\* Q / (4 * Math.PI * r * r) for r in mm
directField(Q, r) == (Q * 79577471) \div ((r * r) \div 100)

\* 4 / absorptionArea
diffuseField(absorptionArea) == 2 * ((2 * 10^9) \div absorptionArea)

\* acoustics.soundPressureLevel: r = Math.max(distance, 0.1)
soundPressureLevel(lwA, distance, Q, absorptionArea) ==
    lwA + Log10Int(directField(Q, Max2(distance, 100)) + diffuseField(absorptionArea))
        - 5 * 10^4

\* lp of one outlet at a sample of the listener plane
SoundLevelAt(outlet, room, sx, sz, listenerHeight) ==
    soundPressureLevel(outlet.soundPowerLevel,
                       Sqrt((sx - outlet.position3D.x) * (sx - outlet.position3D.x)
                            + (listenerHeight - outlet.position3D.y)
                              * (listenerHeight - outlet.position3D.y)
                            + (sz - outlet.position3D.z) * (sz - outlet.position3D.z)),
                       getDirectivityQ(outlet.mounting, outlet.position3D, room),
                       calcAbsorptionArea(room))

\* totalLp = levels.length > 0 ? sumLevels(levels) : 0
totalLp(outlets, room, sx, sz, listenerHeight) ==
    IF Len(outlets) > 0
    THEN sumLevels([ i \in 1..Len(outlets) |->
                       SoundLevelAt(outlets[i], room, sx, sz, listenerHeight) ])
    ELSE 0

\* the grid of generateSoundHeatmap, indexed from 0 by iz * cols + ix
SoundGrid(outlets, room, gridSpacing, listenerHeight, cols, rows) ==
    [ idx \in 0..(cols * rows - 1) |->
        totalLp(outlets, room, SampleX(room, gridSpacing, idx % cols),
                SampleZ(room, gridSpacing, idx \div cols), listenerHeight) ]

\* a sound heatmap of the given number of columns and rows
SoundHeatmapOfSize(outlets, room, gridSpacing, listenerHeight, cols, rows) ==
    LET grid == SoundGrid(outlets, room, gridSpacing, listenerHeight, cols, rows)
    IN  [ grid |-> grid, cols |-> cols, rows |-> rows,
          minVal |-> CHOOSE v \in { grid[i] : i \in DOMAIN grid } :
                         \A i \in DOMAIN grid : v <= grid[i],
          maxVal |-> CHOOSE v \in { grid[i] : i \in DOMAIN grid } :
                         \A i \in DOMAIN grid : v >= grid[i],
          gridSpacing |-> gridSpacing,
          originX |-> 0 - room.length \div 2,
          originZ |-> 0 - room.width \div 2,
          listenerHeight |-> listenerHeight ]

\* acoustics.generateSoundHeatmap
generateSoundHeatmap(outlets, room, gridSpacing, listenerHeight) ==
    SoundHeatmapOfSize(outlets, room, gridSpacing, listenerHeight,
                       CeilDiv(room.length, gridSpacing) + 1,
                       CeilDiv(room.width, gridSpacing) + 1)

\* ------------------------------------------------------------------------
\* comfort.evaluateComfort.  An entry of outlets is [outlet, jetResult], the
\* jetResult Null while not computed; room.length and room.width in mm, 0
\* where the room has none.
\* ------------------------------------------------------------------------

\* o.outlet?.outletCategory || o.jetResult?.outletCategory
CategoryOf(o) ==
    IF o.outlet.outletCategory # NullStr THEN o.outlet.outletCategory
    ELSE IF o.jetResult # Null THEN o.jetResult.outletCategory
    ELSE NullStr

RECURSIVE SoundLevels(_, _)
\* the sound power levels the first loop collects, from outlet i on
SoundLevels(outlets, i) ==
    IF i > Len(outlets) THEN << >>
    ELSE IF outlets[i].jetResult # Null
    THEN << outlets[i].jetResult.soundPowerLevel >> \o SoundLevels(outlets, i + 1)
    ELSE SoundLevels(outlets, i + 1)

\* outlets.filter(o => cat !== 'exhaust' && o.jetResult)
supplyOutlets(outlets) ==
    SelectSeq(outlets, LAMBDA o : CategoryOf(o) # "exhaust" /\ o.jetResult # Null)

\* outlets.filter(o => o.jetResult).map(...)
outletData(outlets) ==
    LET kept == SelectSeq(outlets, LAMBDA o : o.jetResult # Null)
    IN  [ i \in 1..Len(kept) |->
            [ position3D     |-> kept[i].outlet.position3D,
              jetResult      |-> kept[i].jetResult,
              typeKey        |-> IF kept[i].outlet.typeKey # NullStr
                                 THEN kept[i].outlet.typeKey ELSE "swirl",
              rotation       |-> kept[i].outlet.rotation,
              outletCategory |-> IF CategoryOf(kept[i]) # NullStr THEN CategoryOf(kept[i])
                                 ELSE "supply",
              mounting       |-> IF kept[i].outlet.mounting # NullStr
                                 THEN kept[i].outlet.mounting ELSE "ceiling",
              slotDirection  |-> kept[i].outlet.slotDirection ] ]

GridHeights == << 100, 1000, 1800 >>

\* the sample point (wx, wy, wz) of the loop indices ix, iz, iy in 0..9, 0..9,
\* 0..2
GridPoint(room, ix, iz, iy) ==
    [ x |-> (0 - room.length \div 2) + ((2 * ix + 1) * room.length) \div 20,
      y |-> GridHeights[iy + 1],
      z |-> (0 - room.width \div 2) + ((2 * iz + 1) * room.width) \div 20 ]

\* v = getVelocityMagnitudeAt(wx, wy, wz, outletData) in pass n of the three
\* nested loops, n = 100 * iy + 10 * iz + ix
MagnitudeInPass(room, data, n) ==
    getVelocityMagnitudeAt(GridPoint(room, n % 10, (n % 100) \div 10, n \div 100).x,
                           GridPoint(room, n % 10, (n % 100) \div 10, n \div 100).y,
                           GridPoint(room, n % 10, (n % 100) \div 10, n \div 100).z,
                           data)

RECURSIVE GridMax(_, _, _, _)
\* the largest v of the passes lo..hi: what "if (v > maxVelocityOccupied)
\* maxVelocityOccupied = v" keeps of them
GridMax(room, data, lo, hi) ==
    IF lo = hi THEN MagnitudeInPass(room, data, lo)
    ELSE Max2(GridMax(room, data, lo, (lo + hi) \div 2),
              GridMax(room, data, (lo + hi) \div 2 + 1, hi))

\* the 10 x 10 x 3 passes, maxVelocityOccupied starting at 0
GridLoops(room, data) == Max2(0, GridMax(room, data, 0, 10 * 10 * 3 - 1))

RECURSIVE FallbackLoop(_, _, _)
\* the fallback loop from outlet i on
FallbackLoop(outlets, i, maxV) ==
    IF i > Len(outlets) THEN maxV
    ELSE LET o == outlets[i]
             isExhaust == o.outlet.outletCategory = "exhaust"
                          \/ o.jetResult.outletCategory = "exhaust"
         IN  IF o.jetResult = Null THEN FallbackLoop(outlets, i + 1, maxV)
             ELSE IF ~isExhaust /\ o.jetResult.maxVelocityOccupied > maxV
             THEN FallbackLoop(outlets, i + 1, o.jetResult.maxVelocityOccupied)
             ELSE FallbackLoop(outlets, i + 1, maxV)

\* the grid condition counting every outlet with a jet result
UsesGridAnyCategory(outlets, room) ==
    Len(outletData(outlets)) > 1 /\ room.length # 0 /\ room.width # 0

UsesGrid(outlets, room) ==
    Len(supplyOutlets(outlets)) > 1 /\ room.length # 0 /\ room.width # 0

\* the worst case as the largest per-outlet estimate, whatever the outlets
MaxVelocityPerOutlet(outlets, room) == FallbackLoop(outlets, 1, 0)

\* the worst-case velocity in the occupied zone, by either path
MaxVelocityOccupied(outlets, room) ==
    IF UsesGrid(outlets, room)
    THEN GridLoops(room, outletData(outlets))
    ELSE FallbackLoop(outlets, 1, 0)

\* 10 * Math.log10(totalSoundLevels.reduce(...)), 0 for no levels
TotalSoundLevel(soundLevels) ==
    IF Len(soundLevels) > 0
    THEN EnergyToLevel(ReduceEnergy(soundLevels, 1, FZero))
    ELSE 0

\* an overall category that looks at the velocity tier alone
VelocityTierAlone(soundCompliant, velocityCategory) == velocityCategory

\* the overall category: worst of velocity and sound
OverallCategory(soundCompliant, velocityCategory) ==
    IF ~soundCompliant \/ velocityCategory = "FAIL" THEN "FAIL"
    ELSE velocityCategory

\* evaluateComfort from the draught rate on
ComfortResult(roomLimit, room, maxVelocityOccupied, totalSoundLevel) ==
    [ maxVelocityOccupied |-> maxVelocityOccupied,
      velocityCategory    |-> getVelocityCategory(maxVelocityOccupied),
      draughtRate         |-> calcDraughtRate(room.temperature, maxVelocityOccupied, 40),
      draughtRateOk       |-> calcDraughtRate(room.temperature, maxVelocityOccupied, 40)
                              < CATEGORIES.II.maxDR,
      totalSoundLevel     |-> totalSoundLevel,
      soundLimit          |-> roomLimit.maxDbA,
      soundCompliant      |-> totalSoundLevel <= roomLimit.maxDbA,
      soundMargin         |-> roomLimit.maxDbA - totalSoundLevel,
      overallCategory     |-> OverallCategory(totalSoundLevel <= roomLimit.maxDbA,
                                              getVelocityCategory(maxVelocityOccupied)) ]

evaluateComfort(outlets, room) ==
    ComfortResult(getRoomTypeLimit(room.roomType), room,
                  MaxVelocityOccupied(outlets, room),
                  TotalSoundLevel(SoundLevels(outlets, 1)))

\* comfort.getComfortSummary: the recommendations pushed, in order.  A
\* recommendation is the language of its text, what it is about, and the
\* figure printed in it with toFixed(1), in tenths (0 when it prints none).
Recommendations(msgLang, c) ==
    LET velocity == IF c.maxVelocityOccupied > 2000
                    THEN << [lang |-> msgLang, about |-> "velocity", figure |-> 0] >>
                    ELSE << >>
        draught  == IF c.draughtRate > 1500
                    THEN << [lang |-> msgLang, about |-> "draughtRate",
                             figure |-> RoundDiv(c.draughtRate, 10)] >>
                    ELSE << >>
        sound    == IF ~c.soundCompliant
                    THEN << [lang |-> msgLang, about |-> "sound",
                             figure |-> RoundDiv(Abs(c.soundMargin), 100)] >>
                    ELSE << >>
        pushed   == velocity \o draught \o sound
    IN  IF Len(pushed) = 0
        THEN << [lang |-> msgLang, about |-> "allCriteriaMet", figure |-> 0] >>
        ELSE pushed

\* comfort.getComfortSummary(comfortResult, lang)
getComfortSummary(c, lang) ==
    [ categoryLabel   |-> [lang     |-> IF lang \in {"de", "en"} THEN lang ELSE "de",
                           category |-> c.overallCategory],
      recommendations |-> Recommendations(IF lang = "de" THEN "de" ELSE "en", c) ]

\* ------------------------------------------------------------------------
\* app: the state object and the handlers that keep results and comfort up
\* to date.  state.outlets is the sequence of outlet data in insertion
\* order, state.results the function from outlet ids to jet results.
\* ------------------------------------------------------------------------

VARIABLES room, outlets, results, comfortResult, args, ret,
          obstacles, history, selection, timers, heatmaps

\* state.obstacles, the undoRedo object, what is selected and shown, the
\* pending timers with the snapshots they wait for, and what updateHeatmaps
\* has read
editor == << obstacles, history, selection, timers, heatmaps >>

vars == << room, outlets, results, comfortResult, args, ret, editor >>

\* the most outlets placed in a room at a time
MaxOutlets == 3

createOutletData(id, typeKey, sizeIndex, position3D, volumeFlow, outletCategory) ==
    LET sizeData == getSize(typeKey, sizeIndex)
        isExhaust == outletCategory = "exhaust" \/ typeKey \in DOMAIN EXHAUST_TYPES
    IN  [ id             |-> id,
          typeKey        |-> typeKey,
          sizeIndex      |-> sizeIndex,
          sizeData       |-> sizeData,
          position3D     |-> position3D,
          mounting       |-> "ceiling",
          volumeFlow     |-> IF volumeFlow # 0 THEN volumeFlow ELSE sizeData.vFlowDefault,
          supplyTemp     |-> IF isExhaust THEN None ELSE Some(1800),
          rotation       |-> 0,
          slotLength     |-> sizeData.lengthDefault,
          slotDirection  |-> IF typeKey = "slot" THEN "bidirectional" ELSE NullStr,
          outletCategory |-> IF isExhaust THEN "exhaust" ELSE "supply" ]

\* The rooms handleCreateRoom is given: the example room, a larger
\* restaurant, and a project room stored without length and width.
RoomInputs ==
    { [length |-> 8000, width |-> 6000, height |-> 3200,
       roomType |-> "meeting_room", temperature |-> 2200],
      [length |-> 10000, width |-> 8000, height |-> 3000,
       roomType |-> "restaurant", temperature |-> 2400],
      [length |-> 0, width |-> 0, height |-> 3200,
       roomType |-> "open_office", temperature |-> 2200] }

\* What the user places under the ceiling of room r: catalog type, size
\* index, floor position, volume flow and category of each placement.
Placements(r) ==
    << createOutletData(1, "swirl", 2, [x |-> -1500, y |-> r.height, z |-> 0], 500, "supply"),
       createOutletData(2, "plateValve", 1, [x |-> 1500, y |-> r.height, z |-> 0], 100, "supply"),
       createOutletData(3, "exhaustSwirl", 1, [x |-> 0, y |-> r.height, z |-> 2000], 350, "exhaust"),
       createOutletData(4, "exhaustPlateValve", 1, [x |-> 0, y |-> r.height, z |-> -2000], 100, "exhaust") >>

PlacementCount == Len(Placements(CHOOSE r \in RoomInputs : TRUE))

OutletIds(os) == { os[i].id : i \in 1..Len(os) }

\* the jet result recalculate stores for an outlet
JetResultOf(outlet, r) ==
    calculateOutlet(
        [ typeKey        |-> outlet.typeKey,
          sizeData       |-> outlet.sizeData,
          volumeFlow     |-> outlet.volumeFlow,
          supplyTemp     |-> IF outlet.supplyTemp # None THEN outlet.supplyTemp[1]
                             ELSE r.temperature,
          mounting       |-> outlet.mounting,
          slotLength     |-> outlet.slotLength,
          slotDirection  |-> outlet.slotDirection,
          outletCategory |-> IF outlet.outletCategory # NullStr THEN outlet.outletCategory
                             ELSE "supply" ],
        [ height |-> r.height, temperature |-> r.temperature ])

RECURSIVE outletsForComfort(_, _, _)
\* state.outlets.forEach: the entries pushed from outlet i on
outletsForComfort(os, res, i) ==
    IF i > Len(os) THEN << >>
    ELSE IF os[i].id \in DOMAIN res
    THEN << [outlet |-> os[i], jetResult |-> res[os[i].id]] >>
         \o outletsForComfort(os, res, i + 1)
    ELSE outletsForComfort(os, res, i + 1)

\* the value _updateComfort leaves in state.comfortResult
UpdatedComfort(r, os, res) ==
    IF r = Null \/ Len(os) = 0 THEN Null
    ELSE evaluateComfort(outletsForComfort(os, res, 1), r)

\* null, for an outlet or obstacle id
NoId == 0

\* undoRedo.MAX_HISTORY
MAX_HISTORY == 50

\* undoRedo.snapshotOutlet
snapshotOutlet(outlet) ==
    [ id             |-> outlet.id,
      typeKey        |-> outlet.typeKey,
      sizeIndex      |-> outlet.sizeIndex,
      mounting       |-> outlet.mounting,
      volumeFlow     |-> outlet.volumeFlow,
      supplyTemp     |-> outlet.supplyTemp,
      rotation       |-> outlet.rotation,
      slotLength     |-> outlet.slotLength,
      slotDirection  |-> outlet.slotDirection,
      outletCategory |-> outlet.outletCategory,
      position3D     |-> outlet.position3D ]

\* snapshotObstacle: a plain copy of the obstacle data
snapshotObstacle(obstacle) == obstacle

\* the most actions pushed while the editor is explored
MaxEdits == 2

\* the actions pushed since the application started, counted up to MaxEdits
Pushed(h) == IF h.pushes < MaxEdits THEN h.pushes + 1 ELSE h.pushes

\* a push that lets the history grow beyond MAX_HISTORY
pushUnbounded(h, action) ==
    [ undoStack |-> Append(h.undoStack, action), redoStack |-> << >>,
      pushes |-> Pushed(h) ]

\* UndoRedo.push
push(h, action) ==
    [ undoStack |-> IF Len(h.undoStack) + 1 > MAX_HISTORY
                    THEN Tail(Append(h.undoStack, action))
                    ELSE Append(h.undoStack, action),
      redoStack |-> << >>,
      pushes |-> Pushed(h) ]

\* UndoRedo.undo: the action returned (null on an empty stack) and the
\* history left
undo(h) ==
    IF Len(h.undoStack) = 0 THEN [action |-> Null, history |-> h]
    ELSE [ action  |-> h.undoStack[Len(h.undoStack)],
           history |-> [ undoStack |-> SubSeq(h.undoStack, 1, Len(h.undoStack) - 1),
                         redoStack |-> Append(h.redoStack, h.undoStack[Len(h.undoStack)]),
                         pushes |-> h.pushes ] ]

\* UndoRedo.redo
redo(h) ==
    IF Len(h.redoStack) = 0 THEN [action |-> Null, history |-> h]
    ELSE [ action  |-> h.redoStack[Len(h.redoStack)],
           history |-> [ undoStack |-> Append(h.undoStack, h.redoStack[Len(h.redoStack)]),
                         redoStack |-> SubSeq(h.redoStack, 1, Len(h.redoStack) - 1),
                         pushes |-> h.pushes ] ]

\* UndoRedo.clear
clear(h) == [ undoStack |-> << >>, redoStack |-> << >>, pushes |-> h.pushes ]

\* the application with nothing in it
EditorInit ==
    /\ obstacles = << >>
    /\ history = [ undoStack |-> << >>, redoStack |-> << >>, pushes |-> 0 ]
    /\ selection = [ outletId |-> NoId, obstacleId |-> NoId, placer |-> NoId,
                     panel |-> NoId ]
    /\ timers = [ paramBeforeSnapshot |-> Null, paramCommitTimer |-> NoId,
                  dragBeforeSnapshot |-> Null, obstacleDragBeforeSnapshot |-> Null,
                  heatmapTimer |-> FALSE, heatmapTimers |-> 0 ]
    /\ heatmaps = [ outletsForCalc |-> << >>, timerRuns |-> 0 ]

\* the state object with the module-level variables of the application
State ==
    [ room |-> room, outlets |-> outlets, results |-> results,
      comfortResult |-> comfortResult, obstacles |-> obstacles, history |-> history,
      selection |-> selection, timers |-> timers, heatmaps |-> heatmaps ]

\* the handler leaves the application in state s
Becomes(s) ==
    /\ room' = s.room
    /\ outlets' = s.outlets
    /\ results' = s.results
    /\ comfortResult' = s.comfortResult
    /\ obstacles' = s.obstacles
    /\ history' = s.history
    /\ selection' = s.selection
    /\ timers' = s.timers
    /\ heatmaps' = s.heatmaps

\* state.outlets.has(id) and state.outlets.get(id)
HasOutlet(os, id) == \E i \in 1..Len(os) : os[i].id = id

GetOutlet(os, id) == os[CHOOSE i \in 1..Len(os) : os[i].id = id]

\* state.outlets.set(id, outlet): a known id keeps its place
SetOutlet(os, outlet) ==
    IF HasOutlet(os, outlet.id)
    THEN [ i \in 1..Len(os) |-> IF os[i].id = outlet.id THEN outlet ELSE os[i] ]
    ELSE Append(os, outlet)

\* Map.set and Map.delete on a map from ids
MapSet(m, id, v) == [ k \in DOMAIN m \cup {id} |-> IF k = id THEN v ELSE m[k] ]

MapDelete(m, id) == [ k \in DOMAIN m \ {id} |-> m[k] ]

\* _updateComfort
_updateComfort(s) ==
    [s EXCEPT !.comfortResult = UpdatedComfort(s.room, s.outlets, s.results)]

\* a schedule that leaves the timer of the previous call pending
_scheduleHeatmapUpdateNoClear(s) ==
    [s EXCEPT !.timers.heatmapTimer = TRUE,
              !.timers.heatmapTimers = s.timers.heatmapTimers + 1,
              !.heatmaps.timerRuns = 0]

\* _scheduleHeatmapUpdate: clearTimeout of the timer of the previous call,
\* if it is still pending, and a new timer
_scheduleHeatmapUpdate(s) ==
    [s EXCEPT !.timers.heatmapTimer = TRUE,
              !.timers.heatmapTimers =
                  (IF s.timers.heatmapTimer THEN s.timers.heatmapTimers - 1
                   ELSE s.timers.heatmapTimers) + 1,
              !.heatmaps.timerRuns = 0]

\* state.results.set(outletId, result) of recalculate
StoreResult(s, outletId) ==
    [s EXCEPT !.results = MapSet(s.results, outletId,
                                 JetResultOf(GetOutlet(s.outlets, outletId), s.room))]

\* recalculate: the panel shows the results if the outlet is the selected one
ShowResults(s, outletId) ==
    IF s.selection.outletId = outletId
    THEN [s EXCEPT !.selection.panel = outletId]
    ELSE s

\* recalculate(outletId)
recalculate(s, outletId) ==
    IF ~HasOutlet(s.outlets, outletId) \/ s.room = Null THEN s
    ELSE _scheduleHeatmapUpdate(
             ShowResults(_updateComfort(StoreResult(s, outletId)), outletId))

\* selectOutlet(outletId), with outletPlacer.selectOutlet.  The placer's map
\* of meshes holds the ids of state.outlets, and entries of earlier rooms,
\* whose ids do not come back.
selectOutlet(s, outletId) ==
    [s EXCEPT !.selection.outletId = outletId,
              !.selection.obstacleId = NoId,
              !.selection.placer = IF HasOutlet(s.outlets, outletId)
                                   THEN outletId ELSE NoId,
              !.selection.panel = IF HasOutlet(s.outlets, outletId) /\ s.room # Null
                                  THEN outletId ELSE s.selection.panel]

\* addOutlet(outletData)
AfterAddOutlet(s, placed) ==
    LET set == [s EXCEPT !.outlets = SetOutlet(s.outlets, placed)]
    IN  selectOutlet(recalculate(set, placed.id), placed.id)

\* the outlet data updateHeatmaps hands to the heatmap generators
RECURSIVE outletsForCalc(_, _, _)
outletsForCalc(os, res, i) ==
    IF i > Len(os) THEN << >>
    ELSE IF os[i].id \in DOMAIN res
    THEN << [ position3D      |-> os[i].position3D,
              mounting        |-> os[i].mounting,
              soundPowerLevel |-> res[os[i].id].soundPowerLevel,
              jetResult       |-> res[os[i].id],
              typeKey         |-> os[i].typeKey,
              rotation        |-> os[i].rotation,
              outletCategory  |-> os[i].outletCategory,
              slotDirection   |-> os[i].slotDirection ] >>
         \o outletsForCalc(os, res, i + 1)
    ELSE outletsForCalc(os, res, i + 1)

\* updateHeatmaps: the heatmaps are removed without a room or outlets,
\* left as they are when no outlet has a result, and generated from the
\* outlets and results of the moment otherwise
updateHeatmaps(s) ==
    IF s.room = Null \/ Len(s.outlets) = 0
    THEN [s EXCEPT !.heatmaps.outletsForCalc = << >>]
    ELSE IF Len(outletsForCalc(s.outlets, s.results, 1)) = 0 THEN s
    ELSE [s EXCEPT !.heatmaps.outletsForCalc = outletsForCalc(s.outlets, s.results, 1)]

\* handleOutletDelete(outletId, skipUndo)
AfterOutletDelete(s, outletId, skipUndo) ==
    LET pushed  == IF ~skipUndo /\ HasOutlet(s.outlets, outletId)
                   THEN [s EXCEPT !.history =
                            push(s.history,
                                 [ type |-> "remove", outletId |-> outletId,
                                   before |-> snapshotOutlet(GetOutlet(s.outlets, outletId)) ])]
                   ELSE s
        deleted == [pushed EXCEPT
                      !.outlets = SelectSeq(pushed.outlets, LAMBDA o : o.id # outletId),
                      !.results = MapDelete(pushed.results, outletId),
                      !.selection.placer = IF pushed.selection.placer = outletId THEN NoId
                                           ELSE pushed.selection.placer,
                      !.selection.outletId = NoId,
                      !.selection.panel = NoId]
    IN  updateHeatmaps(_updateComfort(deleted))

\* handleCreateRoom(room); visualization.clearAll drops the heatmaps
AfterCreateRoom(s, r) ==
    [s EXCEPT !.outlets = << >>,
              !.results = << >>,
              !.obstacles = << >>,
              !.selection.outletId = NoId,
              !.selection.obstacleId = NoId,
              !.selection.panel = NoId,
              !.room = r,
              !.heatmaps.outletsForCalc = << >>,
              !.history = clear(s.history)]

\* undoRedo.push(action) on the state object
PushAction(s, action) == [s EXCEPT !.history = push(s.history, action)]

\* handleOutletPlaced(outletData)
AfterOutletPlaced(s, placed) ==
    PushAction(AfterAddOutlet(s, placed),
               [ type |-> "add", outletId |-> placed.id, after |-> snapshotOutlet(placed) ])

\* handleOutletDeselected
AfterOutletDeselected(s) ==
    [s EXCEPT !.selection.outletId = NoId,
              !.selection.obstacleId = NoId,
              !.selection.panel = NoId]

\* handleOutletMoved(outletId, newX, newZ)
AfterOutletMoved(s, outletId, newX, newZ) ==
    IF ~HasOutlet(s.outlets, outletId) THEN s
    ELSE LET outlet   == GetOutlet(s.outlets, outletId)
             captured == IF s.timers.dragBeforeSnapshot = Null
                            \/ s.timers.dragBeforeSnapshot.id # outletId
                         THEN [s EXCEPT !.timers.dragBeforeSnapshot = snapshotOutlet(outlet)]
                         ELSE s
             moved    == [captured EXCEPT !.outlets =
                            SetOutlet(captured.outlets,
                                      [outlet EXCEPT !.position3D.x = newX,
                                                     !.position3D.z = newZ])]
         IN  recalculate(moved, outletId)

\* handleDragEnd
AfterDragEnd(s) ==
    IF s.timers.dragBeforeSnapshot = Null THEN s
    ELSE LET before == s.timers.dragBeforeSnapshot
             pushed ==
                IF HasOutlet(s.outlets, before.id)
                THEN LET after == snapshotOutlet(GetOutlet(s.outlets, before.id))
                     IN  IF after.position3D.x # before.position3D.x
                            \/ after.position3D.z # before.position3D.z
                         THEN [s EXCEPT !.history =
                                 push(s.history, [ type |-> "modify", outletId |-> before.id,
                                                   before |-> before, after |-> after ])]
                         ELSE s
                ELSE s
         IN  [pushed EXCEPT !.timers.dragBeforeSnapshot = Null]

\* the 'modify' action handleOutletRotated pushes once the outlet is turned
PushRotation(s, outletId, before) ==
    PushAction(s, [ type |-> "modify", outletId |-> outletId, before |-> before,
                    after |-> snapshotOutlet(GetOutlet(s.outlets, outletId)) ])

\* handleOutletRotated(outletId, newRotation)
AfterOutletRotated(s, outletId, newRotation) ==
    IF ~HasOutlet(s.outlets, outletId) THEN s
    ELSE PushRotation(
             recalculate(
                 [s EXCEPT !.outlets =
                     SetOutlet(s.outlets,
                               [GetOutlet(s.outlets, outletId) EXCEPT !.rotation = newRotation])],
                 outletId),
             outletId, snapshotOutlet(GetOutlet(s.outlets, outletId)))

\* a handler that takes a new snapshot at every change of the burst
handleBeforeParamChangeAlways(s, outletId) ==
    IF ~HasOutlet(s.outlets, outletId) THEN s
    ELSE [s EXCEPT !.timers.paramBeforeSnapshot = snapshotOutlet(GetOutlet(s.outlets, outletId)),
                   !.timers.paramCommitTimer = outletId]

\* handleBeforeParamChange(outletId): the snapshot is taken once per
\* gesture, the commit timer is cleared and set anew for this outlet
handleBeforeParamChange(s, outletId) ==
    IF ~HasOutlet(s.outlets, outletId) THEN s
    ELSE [s EXCEPT !.timers.paramBeforeSnapshot =
                      IF s.timers.paramBeforeSnapshot = Null
                         \/ s.timers.paramBeforeSnapshot.id # outletId
                      THEN snapshotOutlet(GetOutlet(s.outlets, outletId))
                      ELSE s.timers.paramBeforeSnapshot,
                   !.timers.paramCommitTimer = outletId]

\* _commitParamChange(outletId), run by the commit timer
_commitParamChange(s, outletId) ==
    LET fired  == [s EXCEPT !.timers.paramCommitTimer = NoId]
        before == s.timers.paramBeforeSnapshot
    IN  IF HasOutlet(s.outlets, outletId) /\ before # Null /\ before.id = outletId
        THEN LET after  == snapshotOutlet(GetOutlet(s.outlets, outletId))
                 pushed == IF before # after
                           THEN [fired EXCEPT !.history =
                                   push(fired.history,
                                        [ type |-> "modify", outletId |-> outletId,
                                          before |-> before, after |-> after ])]
                           ELSE fired
             IN  [pushed EXCEPT !.timers.paramBeforeSnapshot = Null]
        ELSE fired

\* a handler that leaves the result of the changed outlet as it was
handleParamChangedUnseen(s, outletId) == s

\* handleParamChanged(outletId)
handleParamChanged(s, outletId) == recalculate(s, outletId)

\* the input listener of the volume flow field of the properties panel:
\* emitBefore, the change of the outlet shown, emit
AfterFlowInput(s, volumeFlow) ==
    IF s.selection.panel = NoId THEN s
    ELSE LET id      == s.selection.panel
             before  == handleBeforeParamChange(s, id)
             changed == [before EXCEPT !.outlets =
                            SetOutlet(before.outlets,
                                      [GetOutlet(before.outlets, id)
                                          EXCEPT !.volumeFlow = volumeFlow])]
         IN  handleParamChanged(changed, id)

\* _recalculateAll
RECURSIVE RecalculateFrom(_, _)
RecalculateFrom(s, i) ==
    IF i > Len(s.outlets) THEN s
    ELSE RecalculateFrom(recalculate(s, s.outlets[i].id), i + 1)

\* a recalculation in which an obstacle in the room blocks the outlets
_recalculateAllBlocked(s) ==
    IF DOMAIN s.obstacles = {} THEN RecalculateFrom(s, 1)
    ELSE _updateComfort([s EXCEPT !.results = << >>])

_recalculateAll(s) == RecalculateFrom(s, 1)

\* selectObstacleInApp(obstacleId)
selectObstacleInApp(s, obstacleId) ==
    [s EXCEPT !.selection.obstacleId = obstacleId,
              !.selection.outletId = NoId,
              !.selection.panel = IF obstacleId \in DOMAIN s.obstacles /\ s.room # Null
                                  THEN NoId ELSE s.selection.panel]

\* handleObstaclePlaced(obstacleData)
AfterObstaclePlaced(s, obstacleData) ==
    LET placed == [s EXCEPT !.obstacles = MapSet(s.obstacles, obstacleData.id, obstacleData),
                            !.history = push(s.history,
                                             [ type |-> "add_obstacle",
                                               obstacleId |-> obstacleData.id,
                                               after |-> snapshotObstacle(obstacleData) ])]
    IN  _recalculateAll(selectObstacleInApp(placed, obstacleData.id))

\* handleObstacleSelected(obstacleId)
AfterObstacleSelected(s, obstacleId) ==
    selectObstacleInApp(
        IF s.selection.outletId # NoId
        THEN [s EXCEPT !.selection.outletId = NoId, !.selection.placer = NoId]
        ELSE s,
        obstacleId)

\* handleObstacleDeselected
AfterObstacleDeselected(s) ==
    [s EXCEPT !.selection.obstacleId = NoId, !.selection.panel = NoId]

\* handleObstacleMoved(obstacleId, newX, newZ)
AfterObstacleMoved(s, obstacleId, newX, newZ) ==
    IF obstacleId \notin DOMAIN s.obstacles THEN s
    ELSE LET obstacle == s.obstacles[obstacleId]
         IN  [s EXCEPT !.timers.obstacleDragBeforeSnapshot =
                          IF s.timers.obstacleDragBeforeSnapshot = Null
                             \/ s.timers.obstacleDragBeforeSnapshot.id # obstacleId
                          THEN snapshotObstacle(obstacle)
                          ELSE s.timers.obstacleDragBeforeSnapshot,
                       !.obstacles[obstacleId].position = [x |-> newX, z |-> newZ]]

\* handleObstacleDragEnd
AfterObstacleDragEnd(s) ==
    LET before == s.timers.obstacleDragBeforeSnapshot
        ended  ==
           IF before = Null THEN s
           ELSE [ (IF before.id \in DOMAIN s.obstacles
                      /\ s.obstacles[before.id].position # before.position
                   THEN [s EXCEPT !.history =
                           push(s.history,
                                [ type |-> "modify_obstacle", obstacleId |-> before.id,
                                  before |-> before,
                                  after |-> snapshotObstacle(s.obstacles[before.id]) ])]
                   ELSE s)
                  EXCEPT !.timers.obstacleDragBeforeSnapshot = Null ]
    IN  _recalculateAll(ended)

\* the input listener of a size field of the obstacle shown, with
\* handleObstacleParamChanged(obstacleId)
AfterObstacleParamChanged(s, obstacleId, height) ==
    IF obstacleId \notin DOMAIN s.obstacles THEN s
    ELSE LET changed == [s EXCEPT !.obstacles[obstacleId].height = height]
         IN  _recalculateAll(IF changed.selection.obstacleId = obstacleId
                             THEN selectObstacleInApp(changed, obstacleId)
                             ELSE changed)

\* handleObstacleDelete(obstacleId, skipUndo)
AfterObstacleDelete(s, obstacleId, skipUndo) ==
    LET pushed  == IF ~skipUndo /\ obstacleId \in DOMAIN s.obstacles
                   THEN [s EXCEPT !.history =
                            push(s.history,
                                 [ type |-> "remove_obstacle", obstacleId |-> obstacleId,
                                   before |-> snapshotObstacle(s.obstacles[obstacleId]) ])]
                   ELSE s
        deleted == [pushed EXCEPT !.obstacles = MapDelete(pushed.obstacles, obstacleId),
                                  !.selection.obstacleId = NoId,
                                  !.selection.panel = NoId]
    IN  _recalculateAll(deleted)

\* _restoreObstacleFromSnapshot(snap)
_restoreObstacleFromSnapshot(s, snap) ==
    _recalculateAll(selectObstacleInApp(
        [s EXCEPT !.obstacles = MapSet(s.obstacles, snap.id, snap)], snap.id))

\* _restoreObstacleState(snap)
_restoreObstacleState(s, snap) ==
    IF snap.id \notin DOMAIN s.obstacles THEN s
    ELSE _recalculateAll(selectObstacleInApp(
             [s EXCEPT !.obstacles[snap.id] = snap], snap.id))

\* _restoreOutletFromSnapshot(snap)
_restoreOutletFromSnapshot(s, snap) ==
    IF getType(snap.typeKey) = Null \/ getSize(snap.typeKey, snap.sizeIndex) = Null THEN s
    ELSE LET created == createOutletData(snap.id, snap.typeKey, snap.sizeIndex,
                                         snap.position3D, snap.volumeFlow,
                                         snap.outletCategory)
         IN  AfterAddOutlet(s, [created EXCEPT !.supplyTemp = snap.supplyTemp,
                                               !.rotation = snap.rotation,
                                               !.slotLength = snap.slotLength,
                                               !.slotDirection = snap.slotDirection,
                                               !.mounting = snap.mounting,
                                               !.outletCategory = snap.outletCategory])

\* _restoreOutletState(snap)
_restoreOutletState(s, snap) ==
    IF ~HasOutlet(s.outlets, snap.id) THEN s
    ELSE IF getType(snap.typeKey) = Null \/ getSize(snap.typeKey, snap.sizeIndex) = Null THEN s
    ELSE LET restored ==
                [ id             |-> snap.id,
                  typeKey        |-> snap.typeKey,
                  sizeIndex      |-> snap.sizeIndex,
                  sizeData       |-> getSize(snap.typeKey, snap.sizeIndex),
                  position3D     |-> snap.position3D,
                  mounting       |-> snap.mounting,
                  volumeFlow     |-> snap.volumeFlow,
                  supplyTemp     |-> snap.supplyTemp,
                  rotation       |-> snap.rotation,
                  slotLength     |-> snap.slotLength,
                  slotDirection  |-> snap.slotDirection,
                  outletCategory |-> snap.outletCategory ]
         IN  selectOutlet(recalculate([s EXCEPT !.outlets = SetOutlet(s.outlets, restored)],
                                      snap.id),
                          snap.id)

\* _applyAction(action, isUndo)
_applyAction(s, action, isUndo) ==
    CASE action.type = "add" ->
            IF isUndo THEN AfterOutletDelete(s, action.outletId, TRUE)
            ELSE _restoreOutletFromSnapshot(s, action.after)
      [] action.type = "remove" ->
            IF isUndo THEN _restoreOutletFromSnapshot(s, action.before)
            ELSE AfterOutletDelete(s, action.outletId, TRUE)
      [] action.type = "modify" ->
            _restoreOutletState(s, IF isUndo THEN action.before ELSE action.after)
      [] action.type = "add_obstacle" ->
            IF isUndo THEN AfterObstacleDelete(s, action.obstacleId, TRUE)
            ELSE _restoreObstacleFromSnapshot(s, action.after)
      [] action.type = "remove_obstacle" ->
            IF isUndo THEN _restoreObstacleFromSnapshot(s, action.before)
            ELSE AfterObstacleDelete(s, action.obstacleId, TRUE)
      [] action.type = "modify_obstacle" ->
            _restoreObstacleState(s, IF isUndo THEN action.before ELSE action.after)

\* applyUndo
AfterUndo(s) ==
    IF undo(s.history).action = Null THEN s
    ELSE _applyAction([s EXCEPT !.history = undo(s.history).history],
                      undo(s.history).action, TRUE)

\* applyRedo
AfterRedo(s) ==
    IF redo(s.history).action = Null THEN s
    ELSE _applyAction([s EXCEPT !.history = redo(s.history).history],
                      redo(s.history).action, FALSE)

\* the heatmap timer fires: updateHeatmaps
AfterHeatmapTimer(s) ==
    LET fired == [s EXCEPT !.timers.heatmapTimers = s.timers.heatmapTimers - 1,
                           !.timers.heatmapTimer = FALSE,
                           !.heatmaps.timerRuns = s.heatmaps.timerRuns + 1]
    IN  updateHeatmaps(fired)

Init ==
    /\ room = Null
    /\ outlets = << >>
    /\ results = << >>
    /\ comfortResult = Null
    /\ EditorInit
    /\ args = Null
    /\ ret = Null

handleCreateRoom(r) ==
    /\ Becomes(AfterCreateRoom(State, r))
    /\ UNCHANGED << args, ret >>

\* addOutlet with the recalculate and the selection it runs; placement is
\* offered only once a room exists
addOutlet(placed) ==
    /\ room # Null
    /\ Len(outlets) < MaxOutlets
    /\ placed.id \notin OutletIds(outlets)
    /\ Becomes(AfterAddOutlet(State, placed))
    /\ UNCHANGED << args, ret >>

\* handleOutletDelete as applyUndo and applyRedo call it
handleOutletDelete(outletId) ==
    /\ outletId \in OutletIds(outlets)
    /\ Becomes(AfterOutletDelete(State, outletId, TRUE))
    /\ UNCHANGED << args, ret >>

Next ==
    \/ \E r \in RoomInputs : handleCreateRoom(r)
    \/ \E k \in 1..PlacementCount : room # Null /\ addOutlet(Placements(room)[k])
    \/ \E id \in 1..PlacementCount : handleOutletDelete(id)

Spec == Init /\ [][Next]_vars


\* ------------------------------------------------------------------------
\* app: the event handlers of the editor, each with everything it runs.
\* A timer is pending or not; it fires as a step of its own.
\* ------------------------------------------------------------------------

\* one more action may be pushed, with the actions the pending commit timer
\* and the drags begun are to push
CanEdit ==
    history.pushes
      + (IF timers.paramCommitTimer # NoId THEN 1 ELSE 0)
      + (IF timers.dragBeforeSnapshot # Null THEN 1 ELSE 0)
      + (IF timers.obstacleDragBeforeSnapshot # Null THEN 1 ELSE 0) < MaxEdits

\* the ids the application still knows of: a new outlet gets a fresh id
RECURSIVE ActionIds(_, _)
ActionIds(stack, i) ==
    IF i > Len(stack) THEN {}
    ELSE (IF stack[i].type \in {"add", "remove", "modify"} THEN {stack[i].outletId} ELSE {})
         \cup ActionIds(stack, i + 1)

KnownOutletIds ==
    OutletIds(outlets) \cup ActionIds(history.undoStack, 1) \cup ActionIds(history.redoStack, 1)
    \cup {selection.outletId, selection.placer, selection.panel, timers.paramCommitTimer}
    \cup (IF timers.paramBeforeSnapshot # Null THEN {timers.paramBeforeSnapshot.id} ELSE {})
    \cup (IF timers.dragBeforeSnapshot # Null THEN {timers.dragBeforeSnapshot.id} ELSE {})

\* the outlet placer places an outlet: handleOutletPlaced
handleOutletPlaced(placed) ==
    /\ room # Null
    /\ Len(outlets) < MaxOutlets
    /\ placed.id \notin KnownOutletIds
    /\ CanEdit
    /\ Becomes(AfterOutletPlaced(State, placed))
    /\ UNCHANGED << args, ret >>

\* a click on the mesh of an outlet: outletPlacer.selectOutlet and
\* handleOutletSelected
handleOutletSelected(outletId) ==
    /\ outletId \in OutletIds(outlets)
    /\ Becomes(selectOutlet(State, outletId))
    /\ UNCHANGED << args, ret >>

\* a click on nothing while the placer has a selection: _clearSelection
\* and handleOutletDeselected
handleOutletDeselected ==
    /\ selection.placer # NoId
    /\ Becomes(AfterOutletDeselected([State EXCEPT !.selection.placer = NoId]))
    /\ UNCHANGED << args, ret >>

\* the outlet the placer has selected is dragged: handleOutletMoved
handleOutletMoved(newX, newZ) ==
    /\ selection.placer \in OutletIds(outlets)
    /\ timers.dragBeforeSnapshot # Null \/ CanEdit
    /\ Becomes(AfterOutletMoved(State, selection.placer, newX, newZ))
    /\ UNCHANGED << args, ret >>

\* the pointer is released: handleDragEnd
handleDragEnd ==
    /\ timers.dragBeforeSnapshot # Null
    /\ Becomes(AfterDragEnd(State))
    /\ UNCHANGED << args, ret >>

\* the R key: OutletPlacer._onKeyDown turns the outlet the placer has
\* selected by a step and calls handleOutletRotated
handleOutletRotated(step) ==
    /\ selection.placer \in OutletIds(outlets)
    /\ CanEdit
    /\ Becomes(AfterOutletRotated(State, selection.placer,
                                  (GetOutlet(outlets, selection.placer).rotation + step) % 360))
    /\ UNCHANGED << args, ret >>

\* the delete button of the panel, or the Delete key with an outlet
\* selected: handleOutletDelete(outletId)
DeleteOutlet ==
    /\ \/ selection.panel # NoId /\ CanEdit
             /\ Becomes(AfterOutletDelete(State, selection.panel, FALSE))
       \/ selection.outletId # NoId /\ CanEdit
             /\ Becomes(AfterOutletDelete(State, selection.outletId, FALSE))
    /\ UNCHANGED << args, ret >>

\* the Escape key: handleKeyboard
EscapeKey ==
    /\ selection.outletId # NoId \/ selection.obstacleId # NoId
    /\ Becomes([ (IF selection.outletId # NoId THEN AfterOutletDeselected(State) ELSE State)
                 EXCEPT !.selection.obstacleId = NoId ])
    /\ UNCHANGED << args, ret >>

\* the outlets with a change made in the panel that no 'modify' action
\* pushed since covers
Uncovered == IF ret = Null THEN {} ELSE ret.uncovered

\* a value is typed into the volume flow field of the panel.  args keeps
\* the burst of changes as the user makes it: the outlet changed and its
\* state before the first change since a commit timer last fired or another
\* outlet was changed; ret keeps the outlets changed.
FlowInput(volumeFlow) ==
    /\ selection.panel # NoId
    /\ timers.paramCommitTimer # NoId \/ CanEdit
    /\ Becomes(AfterFlowInput(State, volumeFlow))
    /\ args' = IF args # Null /\ args.outletId = selection.panel THEN args
               ELSE [ outletId |-> selection.panel,
                      before   |-> snapshotOutlet(GetOutlet(outlets, selection.panel)) ]
    /\ ret' = [ fn |-> "panel",
                uncovered |-> IF GetOutlet(outlets, selection.panel).volumeFlow # volumeFlow
                              THEN Uncovered \cup {selection.panel}
                              ELSE Uncovered ]

\* the step pushes a 'modify' action of the outlet that ends in the state the
\* outlet has
PushesModify(outletId) ==
    /\ Len(history'.undoStack) = Len(history.undoStack) + 1
    /\ LET action == history'.undoStack[Len(history'.undoStack)]
       IN  /\ action.type = "modify"
           /\ action.outletId = outletId
           /\ HasOutlet(outlets', outletId)
           /\ action.after = snapshotOutlet(GetOutlet(outlets', outletId))

\* the commit timer fires: _commitParamChange.  The burst is over, and the
\* changes of the outlet are covered when a 'modify' action is pushed or the
\* burst left the outlet as it was.
CommitTimerFires ==
    /\ timers.paramCommitTimer # NoId
    /\ Becomes(_commitParamChange(State, timers.paramCommitTimer))
    /\ args' = Null
    /\ ret' = [ fn |-> "panel",
                uncovered |->
                   IF \/ PushesModify(timers.paramCommitTimer)
                      \/ /\ args # Null
                         /\ args.outletId = timers.paramCommitTimer
                         /\ HasOutlet(outlets, args.outletId)
                         /\ snapshotOutlet(GetOutlet(outlets, args.outletId)) = args.before
                   THEN Uncovered \ {timers.paramCommitTimer}
                   ELSE Uncovered ]

\* a heatmap timer fires: updateHeatmaps
HeatmapTimerFires ==
    /\ timers.heatmapTimers > 0
    /\ Becomes(AfterHeatmapTimer(State))
    /\ UNCHANGED << args, ret >>

handleObstaclePlaced(obstacleData) ==
    /\ room # Null
    /\ obstacleData.id \notin DOMAIN obstacles
    /\ CanEdit
    /\ Becomes(AfterObstaclePlaced(State, obstacleData))
    /\ UNCHANGED << args, ret >>

handleObstacleSelected(obstacleId) ==
    /\ obstacleId \in DOMAIN obstacles
    /\ Becomes(AfterObstacleSelected(State, obstacleId))
    /\ UNCHANGED << args, ret >>

handleObstacleDeselected ==
    /\ selection.obstacleId # NoId
    /\ Becomes(AfterObstacleDeselected(State))
    /\ UNCHANGED << args, ret >>

\* the obstacle selected is dragged
handleObstacleMoved(newX, newZ) ==
    /\ selection.obstacleId \in DOMAIN obstacles
    /\ timers.obstacleDragBeforeSnapshot # Null \/ CanEdit
    /\ Becomes(AfterObstacleMoved(State, selection.obstacleId, newX, newZ))
    /\ UNCHANGED << args, ret >>

handleObstacleDragEnd ==
    /\ timers.obstacleDragBeforeSnapshot # Null
    /\ Becomes(AfterObstacleDragEnd(State))
    /\ UNCHANGED << args, ret >>

\* a size of the obstacle selected is changed in the panel
handleObstacleParamChanged(height) ==
    /\ selection.obstacleId \in DOMAIN obstacles
    /\ Becomes(AfterObstacleParamChanged(State, selection.obstacleId, height))
    /\ UNCHANGED << args, ret >>

\* the delete button or the Delete key with an obstacle selected
handleObstacleDelete ==
    /\ selection.obstacleId \in DOMAIN obstacles
    /\ CanEdit
    /\ Becomes(AfterObstacleDelete(State, selection.obstacleId, FALSE))
    /\ UNCHANGED << args, ret >>

applyUndo ==
    /\ Len(history.undoStack) > 0
    /\ Becomes(AfterUndo(State))
    /\ UNCHANGED << args, ret >>

applyRedo ==
    /\ Len(history.redoStack) > 0
    /\ Becomes(AfterRedo(State))
    /\ UNCHANGED << args, ret >>

\* ------------------------------------------------------------------------
\* Direct calls of the comfort helpers: args holds the arguments of the
\* call, ret the function called and the value it returned.
\* ------------------------------------------------------------------------

\* the largest velocity of the dense input range, 10^-4 m/s
MaxVelocityInput == 3000

\* velocities: every step up to MaxVelocityInput, and some strong draughts
VelocityInputs == 0..MaxVelocityInput \cup {5000, 10000, 30000}

\* local air temperatures, 0.01 degC
TemperatureInputs == {1800, 2200, 3400, 3600}

\* turbulence intensities, %
TurbulenceInputs == {0, 40, 60}

InitComfortCalls ==
    /\ room = Null
    /\ outlets = << >>
    /\ results = << >>
    /\ comfortResult = Null
    /\ EditorInit
    /\ args \in [tLocal : TemperatureInputs, v : VelocityInputs, tu : TurbulenceInputs]
    /\ ret = Null

CallGetVelocityCategory ==
    /\ ret = Null
    /\ ret' = [fn |-> "getVelocityCategory", value |-> getVelocityCategory(args.v)]
    /\ UNCHANGED << room, outlets, results, comfortResult, args, editor >>

CallCalcDraughtRate ==
    /\ ret = Null
    /\ ret' = [fn |-> "calcDraughtRate",
               value |-> calcDraughtRate(args.tLocal, args.v, args.tu)]
    /\ UNCHANGED << room, outlets, results, comfortResult, args, editor >>

NextComfortCalls ==
    \/ CallGetVelocityCategory
    \/ CallCalcDraughtRate

SpecComfortCalls == InitComfortCalls /\ [][NextComfortCalls]_vars

\* ------------------------------------------------------------------------
\* Direct calls of the sound summation: sumLevels, sumSoundLevels, and
\* evaluateComfort for outlets that have the given sound power levels.
\* ------------------------------------------------------------------------

\* the longest list of levels summed
MaxLevels == 3

\* sound power levels, 0.001 dB
LevelInputs == {21000, 28500, 33671, 40000}

RECURSIVE SeqsUpTo(_, _)
\* the sequences over S of length at most n
SeqsUpTo(S, n) ==
    IF n = 0 THEN { << >> }
    ELSE SeqsUpTo(S, n - 1) \cup { Append(q, x) : q \in SeqsUpTo(S, n - 1), x \in S }

\* an exhaust outlet with its jet result, of sound power level l
SoundEntry(l) ==
    [ outlet    |-> [outletCategory |-> "exhaust"],
      jetResult |-> [outletCategory |-> "exhaust", soundPowerLevel |-> l,
                     maxVelocityOccupied |-> 0] ]

SoundEntries(levels) == [ i \in 1..Len(levels) |-> SoundEntry(levels[i]) ]

\* a room of unknown size
SoundRoom(roomType) ==
    [length |-> 0, width |-> 0, height |-> 3000, roomType |-> roomType, temperature |-> 2200]

InitSoundCalls ==
    /\ room = Null
    /\ outlets = << >>
    /\ results = << >>
    /\ comfortResult = Null
    /\ EditorInit
    /\ args \in [levels : SeqsUpTo(LevelInputs, MaxLevels), roomType : {"meeting_room", "restaurant"}]
    /\ ret = Null

CallSumLevels ==
    /\ ret = Null
    /\ ret' = [fn |-> "sumLevels", value |-> sumLevels(args.levels)]
    /\ UNCHANGED << room, outlets, results, comfortResult, args, editor >>

CallSumSoundLevels ==
    /\ ret = Null
    /\ ret' = [fn |-> "sumSoundLevels", value |-> sumSoundLevels(args.levels)]
    /\ UNCHANGED << room, outlets, results, comfortResult, args, editor >>

CallEvaluateComfort ==
    /\ ret = Null
    /\ ret' = [fn |-> "evaluateComfort",
               value |-> evaluateComfort(SoundEntries(args.levels), SoundRoom(args.roomType))]
    /\ UNCHANGED << room, outlets, results, comfortResult, args, editor >>

NextSoundCalls ==
    \/ CallSumLevels
    \/ CallSumSoundLevels
    \/ CallEvaluateComfort

SpecSoundCalls == InitSoundCalls /\ [][NextSoundCalls]_vars


\* ------------------------------------------------------------------------
\* Direct calls of calculateOutlet for terminals of the catalog.
\* ------------------------------------------------------------------------

TypeKeyInputs == DOMAIN DIFFUSER_TYPES \cup DOMAIN EXHAUST_TYPES

SizeIndexInputs == {0, 1}

\* a quarter of the size's least flow, the ends of its flow range and its
\* default flow
FlowInputs == {"low", "min", "default", "max"}

\* supply temperatures around the room temperatures, 0.01 degrees C
SupplyTempInputs == {1600, 2189, 2190, 2200, 2211, 2800}

RoomTempInputs == {2200}

\* room heights, mm: at the top of the occupied zone, typical, and high
RoomHeightInputs == {1800, 3000, 3500}

MountingInputs == {"ceiling", "wall"}

SlotDirectionInputs == {NullStr, "bidirectional", "vertical"}

FlowOf(sizeData, choice) ==
    IF choice = "low" THEN sizeData.vFlowRange[1] \div 4
    ELSE IF choice = "min" THEN sizeData.vFlowRange[1]
    ELSE IF choice = "max" THEN sizeData.vFlowRange[2]
    ELSE sizeData.vFlowDefault

\* the outlet configuration handed to calculateOutlet
JetOutlet(a) ==
    LET sizeData == getSize(a.typeKey, a.sizeIndex)
    IN  [ typeKey        |-> a.typeKey,
          sizeData       |-> sizeData,
          volumeFlow     |-> FlowOf(sizeData, a.flow),
          supplyTemp     |-> a.supplyTemp,
          mounting       |-> a.mounting,
          slotLength     |-> sizeData.lengthDefault,
          slotDirection  |-> a.slotDirection,
          outletCategory |-> a.outletCategory ]

JetRoom(a) == [height |-> a.roomHeight, temperature |-> a.roomTemp]

InitJetCalls ==
    /\ room = Null
    /\ outlets = << >>
    /\ results = << >>
    /\ comfortResult = Null
    /\ EditorInit
    /\ args \in [ typeKey : TypeKeyInputs, sizeIndex : SizeIndexInputs, flow : FlowInputs,
                  supplyTemp : SupplyTempInputs, roomTemp : RoomTempInputs,
                  roomHeight : RoomHeightInputs,
                  mounting : MountingInputs, slotDirection : SlotDirectionInputs,
                  outletCategory : {"supply", "exhaust"} ]
    /\ ret = Null

CallCalculateOutlet ==
    /\ ret = Null
    /\ ret' = [fn |-> "calculateOutlet", value |-> calculateOutlet(JetOutlet(args), JetRoom(args))]
    /\ UNCHANGED << room, outlets, results, comfortResult, args, editor >>

NextJetCalls == CallCalculateOutlet

SpecJetCalls == InitJetCalls /\ [][NextJetCalls]_vars


\* ------------------------------------------------------------------------
\* Calls of the decay function a jet result carries: calculateOutlet for a
\* terminal of the catalog, then result.velocityAtDistance(x).
\* ------------------------------------------------------------------------

\* the distances the decay function is called at, mm: behind and at the
\* terminal, inside and at the end of the core, beyond it, and at the
\* free-jet throw distance
DecayDistances(jet) ==
    { 0 - 1000, 0, 1, jet.coreLength \div 2, jet.coreLength, jet.coreLength + 1,
      2 * jet.coreLength, 4 * jet.coreLength, 8 * jet.coreLength,
      16 * jet.coreLength, jet.throwDistanceFree }

InitDecayCalls ==
    /\ room = Null
    /\ outlets = << >>
    /\ results = << >>
    /\ comfortResult = Null
    /\ EditorInit
    /\ args \in [ typeKey : TypeKeyInputs, sizeIndex : SizeIndexInputs, flow : FlowInputs,
                  supplyTemp : {1800}, roomTemp : RoomTempInputs, roomHeight : {3000},
                  mounting : {"ceiling"}, slotDirection : {"bidirectional"},
                  outletCategory : {"supply", "exhaust"} ]
    /\ ret = Null

CallVelocityAtDistance ==
    /\ ret # Null
    /\ ret.fn = "calculateOutlet"
    /\ \E x \in DecayDistances(ret.value) :
           ret' = [fn |-> "velocityAtDistance", x |-> x, jet |-> ret.value,
                   value |-> velocityAtDistance(ret.value.velocityAtDistance, x)]
    /\ UNCHANGED << room, outlets, results, comfortResult, args, editor >>

NextDecayCalls ==
    \/ CallCalculateOutlet
    \/ CallVelocityAtDistance

SpecDecayCalls == InitDecayCalls /\ [][NextDecayCalls]_vars


\* ------------------------------------------------------------------------
\* Direct calls of the vector field: getVelocityVectorAt and
\* getVelocityMagnitudeAt for a list of terminals and a point.
\* ------------------------------------------------------------------------

\* the longest list of terminals
MaxTerminals == 2

\* the room the terminals hang in
VectorRoom ==
    [length |-> 8000, width |-> 6000, height |-> 3000,
     roomType |-> "meeting_room", temperature |-> 2200]

\* an outlet data object as getVelocityVectorAt reads it
VectorTerminal(typeKey, sizeIndex, position3D, volumeFlow, outletCategory) ==
    LET o == createOutletData(0, typeKey, sizeIndex, position3D, volumeFlow, outletCategory)
    IN  [ position3D     |-> position3D,
          jetResult      |-> JetResultOf(o, VectorRoom),
          typeKey        |-> typeKey,
          rotation       |-> 0,
          outletCategory |-> o.outletCategory,
          mounting       |-> o.mounting,
          slotDirection  |-> o.slotDirection ]

SwirlTerminal ==
    VectorTerminal("swirl", 2, [x |-> 0 - 1500, y |-> 3000, z |-> 0], 500, "supply")

PlateValveTerminal ==
    VectorTerminal("plateValve", 1, [x |-> 1500, y |-> 3000, z |-> 0], 100, "supply")

ExhaustSwirlTerminal ==
    VectorTerminal("exhaustSwirl", 1, [x |-> 0, y |-> 3000, z |-> 2000], 350, "exhaust")

SlotTerminal ==
    VectorTerminal("slot", 1, [x |-> 0, y |-> 3000, z |-> 0 - 2000], 200, "supply")

ExhaustSlotTerminal ==
    VectorTerminal("exhaustSlot", 1, [x |-> 2000, y |-> 3000, z |-> 1000], 200, "exhaust")

\* terminals of the catalog, one without a jet result and one whose jet
\* result has no decay function
TerminalInputs ==
    { SwirlTerminal, PlateValveTerminal, ExhaustSwirlTerminal, SlotTerminal,
      ExhaustSlotTerminal,
      [SwirlTerminal EXCEPT !.jetResult = Null],
      [PlateValveTerminal EXCEPT !.jetResult.velocityAtDistance = Null] }

\* query points, mm: 5 mm below the swirl terminal, straight below three
\* terminals at 1.2 m, close under the ceiling, and near the floor
PointInputs ==
    { [x |-> 0 - 1500, y |-> 2995, z |-> 0],
      [x |-> 0 - 1500, y |-> 1200, z |-> 0],
      [x |-> 1500, y |-> 1200, z |-> 0],
      [x |-> 0, y |-> 1200, z |-> 2000],
      [x |-> 0, y |-> 2900, z |-> 0],
      [x |-> 500, y |-> 2800, z |-> 500],
      [x |-> 0 - 1000, y |-> 2950, z |-> 0 - 1000],
      [x |-> 0, y |-> 100, z |-> 0] }

InitVectorCalls ==
    /\ room = Null
    /\ outlets = << >>
    /\ results = << >>
    /\ comfortResult = Null
    /\ EditorInit
    /\ args \in [outlets : SeqsUpTo(TerminalInputs, MaxTerminals), point : PointInputs]
    /\ ret = Null

CallGetVelocityVectorAt ==
    /\ ret = Null
    /\ ret' = [fn |-> "getVelocityVectorAt",
               value |-> getVelocityVectorAt(args.point.x, args.point.y, args.point.z,
                                             args.outlets)]
    /\ UNCHANGED << room, outlets, results, comfortResult, args, editor >>

CallGetVelocityMagnitudeAt ==
    /\ ret = Null
    /\ ret' = [fn |-> "getVelocityMagnitudeAt",
               value |-> getVelocityMagnitudeAt(args.point.x, args.point.y, args.point.z,
                                                args.outlets)]
    /\ UNCHANGED << room, outlets, results, comfortResult, args, editor >>

NextVectorCalls ==
    \/ CallGetVelocityVectorAt
    \/ CallGetVelocityMagnitudeAt

SpecVectorCalls == InitVectorCalls /\ [][NextVectorCalls]_vars


\* ------------------------------------------------------------------------
\* Direct calls of generateVelocityHeatmap for a list of terminals in the
\* room of the vector-field calls.
\* ------------------------------------------------------------------------

\* grid spacings and plane heights, mm
GridSpacingInputs == {1500, 2000}

PlaneHeightInputs == {1200, 2900}

InitHeatmapCalls ==
    /\ room = Null
    /\ outlets = << >>
    /\ results = << >>
    /\ comfortResult = Null
    /\ EditorInit
    /\ args \in [ outlets : SeqsUpTo(TerminalInputs, MaxTerminals),
                  gridSpacing : GridSpacingInputs, planeHeight : PlaneHeightInputs ]
    /\ ret = Null

CallGenerateVelocityHeatmap ==
    /\ ret = Null
    /\ ret' = [fn |-> "generateVelocityHeatmap",
               value |-> generateVelocityHeatmap(args.outlets, VectorRoom, args.gridSpacing,
                                                 args.planeHeight)]
    /\ UNCHANGED << room, outlets, results, comfortResult, args, editor >>

\* the terminals as updateHeatmaps hands them over: those with a result,
\* each with the sound power level of its result
RECURSIVE SoundSources(_, _)
SoundSources(terminals, i) ==
    IF i > Len(terminals) THEN << >>
    ELSE IF terminals[i].jetResult # Null
    THEN << [ position3D      |-> terminals[i].position3D,
              mounting        |-> terminals[i].mounting,
              soundPowerLevel |-> terminals[i].jetResult.soundPowerLevel ] >>
         \o SoundSources(terminals, i + 1)
    ELSE SoundSources(terminals, i + 1)

CallGenerateSoundHeatmap ==
    /\ ret = Null
    /\ ret' = [fn |-> "generateSoundHeatmap",
               value |-> generateSoundHeatmap(SoundSources(args.outlets, 1), VectorRoom,
                                              args.gridSpacing, args.planeHeight)]
    /\ UNCHANGED << room, outlets, results, comfortResult, args, editor >>

NextHeatmapCalls ==
    \/ CallGenerateVelocityHeatmap
    \/ CallGenerateSoundHeatmap

SpecHeatmapCalls == InitHeatmapCalls /\ [][NextHeatmapCalls]_vars


\* ------------------------------------------------------------------------
\* Direct calls of getDirectivityQ for a source position in a room.
\* ------------------------------------------------------------------------

\* room extents, mm: the example rooms, an odd extent and a room narrower
\* than twice the wall threshold
ExtentInputs == {900, 4001, 6000, 8000}

\* source coordinates along one axis, mm: around the threshold of each
\* extent, on both sides of the room centre
CoordinateInputs ==
    {0, 200, 450, 1500, 1501, 2499, 2500, 2501, 3000, 3499, 3500, 3501, 4000}

\* the coordinates of a room of this extent, on both sides of the centre
CoordinatesIn(extent) ==
    { c \in CoordinateInputs \cup { 0 - d : d \in CoordinateInputs } :
        2 * Abs(c) <= extent }

DirectivityMountingInputs == {"ceiling", "wall", "floor"}

InitDirectivityCalls ==
    /\ room = Null
    /\ outlets = << >>
    /\ results = << >>
    /\ comfortResult = Null
    /\ EditorInit
    /\ \E length \in ExtentInputs, width \in ExtentInputs :
         \E x \in CoordinatesIn(length), z \in CoordinatesIn(width) :
            args \in [ mounting : DirectivityMountingInputs,
                       position : {[x |-> x, y |-> 3000, z |-> z]},
                       room : {[length |-> length, width |-> width, height |-> 3000]} ]
    /\ ret = Null

CallGetDirectivityQ ==
    /\ ret = Null
    /\ ret' = [fn |-> "getDirectivityQ",
               value |-> getDirectivityQ(args.mounting, args.position, args.room)]
    /\ UNCHANGED << room, outlets, results, comfortResult, args, editor >>

NextDirectivityCalls == CallGetDirectivityQ

SpecDirectivityCalls == InitDirectivityCalls /\ [][NextDirectivityCalls]_vars


\* ------------------------------------------------------------------------
\* Direct calls of the catalog lookups, of getZeta and of getRoomTypeLimit
\* with keys and size indices in and out of the catalogs.
\* ------------------------------------------------------------------------

\* the type keys of both catalogs and two keys of neither
LookupKeyInputs == TypeKeyInputs \cup {"fan", "grille"}

\* size indices from below 0 to beyond the longest size list
LookupIndexInputs == -1 .. 6

\* the room types and a key that is none
RoomKeyInputs == DOMAIN ROOM_TYPES \cup {"warehouse"}

InitLookupCalls ==
    /\ room = Null
    /\ outlets = << >>
    /\ results = << >>
    /\ comfortResult = Null
    /\ EditorInit
    /\ args \in [ typeKey : LookupKeyInputs, sizeIndex : LookupIndexInputs,
                  roomTypeKey : RoomKeyInputs ]
    /\ ret = Null

CallGetType ==
    /\ ret = Null
    /\ ret' = [fn |-> "getType", value |-> getType(args.typeKey)]
    /\ UNCHANGED << room, outlets, results, comfortResult, args, editor >>

CallGetExhaustType ==
    /\ ret = Null
    /\ ret' = [fn |-> "getExhaustType", value |-> getExhaustType(args.typeKey)]
    /\ UNCHANGED << room, outlets, results, comfortResult, args, editor >>

CallGetSize ==
    /\ ret = Null
    /\ ret' = [fn |-> "getSize", value |-> getSize(args.typeKey, args.sizeIndex)]
    /\ UNCHANGED << room, outlets, results, comfortResult, args, editor >>

CallGetExhaustSize ==
    /\ ret = Null
    /\ ret' = [fn |-> "getExhaustSize",
               value |-> getExhaustSize(args.typeKey, args.sizeIndex)]
    /\ UNCHANGED << room, outlets, results, comfortResult, args, editor >>

CallGetZeta ==
    /\ ret = Null
    /\ ret' = [fn |-> "getZeta", value |-> getZeta(args.typeKey)]
    /\ UNCHANGED << room, outlets, results, comfortResult, args, editor >>

CallGetRoomTypeLimit ==
    /\ ret = Null
    /\ ret' = [fn |-> "getRoomTypeLimit", value |-> getRoomTypeLimit(args.roomTypeKey)]
    /\ UNCHANGED << room, outlets, results, comfortResult, args, editor >>

NextLookupCalls ==
    \/ CallGetType
    \/ CallGetExhaustType
    \/ CallGetSize
    \/ CallGetExhaustSize
    \/ CallGetZeta
    \/ CallGetRoomTypeLimit

SpecLookupCalls == InitLookupCalls /\ [][NextLookupCalls]_vars


\* ------------------------------------------------------------------------
\* evaluateComfort for one supply outlet of a given worst-case velocity and
\* sound power level, then getComfortSummary of its result.
\* ------------------------------------------------------------------------

\* room temperatures, 0.01 degC
SummaryTemperatureInputs == {1850, 2200}

\* sound power levels below and above the limit of the room, 0.001 dB(A)
SummaryLevelInputs == {30000, 40000}

\* the languages with labels, and one without
LangInputs == {"de", "en", "fr"}

\* a supply outlet with its jet result
SummaryEntry(v, l) ==
    [ outlet    |-> [outletCategory |-> "supply"],
      jetResult |-> [outletCategory |-> "supply", soundPowerLevel |-> l,
                     maxVelocityOccupied |-> v] ]

InitSummaryCalls ==
    /\ room = Null
    /\ outlets = << >>
    /\ results = << >>
    /\ comfortResult = Null
    /\ EditorInit
    /\ args \in [ v : VelocityInputs, temperature : SummaryTemperatureInputs,
                  level : SummaryLevelInputs, lang : LangInputs ]
    /\ ret = Null

SummaryEvaluateComfort ==
    /\ comfortResult = Null
    /\ comfortResult' =
          evaluateComfort(<< SummaryEntry(args.v, args.level) >>,
                          [SoundRoom("meeting_room") EXCEPT !.temperature = args.temperature])
    /\ UNCHANGED << room, outlets, results, args, ret, editor >>

CallGetComfortSummary ==
    /\ comfortResult # Null
    /\ ret = Null
    /\ ret' = [fn |-> "getComfortSummary",
               value |-> getComfortSummary(comfortResult, args.lang)]
    /\ UNCHANGED << room, outlets, results, comfortResult, args, editor >>

NextSummaryCalls ==
    \/ SummaryEvaluateComfort
    \/ CallGetComfortSummary

SpecSummaryCalls == InitSummaryCalls /\ [][NextSummaryCalls]_vars


\* ------------------------------------------------------------------------
\* The editor with obstacles: a room, outlets added as the example loader
\* adds them, and obstacles placed, moved, changed, deleted, undone and
\* redone.
\* ------------------------------------------------------------------------

EditorRoom ==
    [length |-> 8000, width |-> 6000, height |-> 3200,
     roomType |-> "meeting_room", temperature |-> 2200]

\* the placements of the editor: a supply and an exhaust terminal
EditorPlacements == {Placements(EditorRoom)[1], Placements(EditorRoom)[3]}

\* obstacle data as ObstacleManager hands it to handleObstaclePlaced
ObstacleInputs ==
    { [ id |-> 1, presetKey |-> "desk", shape |-> "box", width |-> 1600, depth |-> 800,
        height |-> 750, position |-> [x |-> 0, z |-> 0] ] }

\* where an obstacle is dragged to, and the height typed into the panel
ObstaclePositionInputs == { [x |-> 1500, z |-> 1000] }

ObstacleHeightInputs == {1200}

NextObstacles ==
    \/ handleCreateRoom(EditorRoom)
    \/ \E placed \in EditorPlacements : addOutlet(placed)
    \/ \E obstacleData \in ObstacleInputs : handleObstaclePlaced(obstacleData)
    \/ \E pos \in ObstaclePositionInputs : handleObstacleMoved(pos.x, pos.z)
    \/ handleObstacleDragEnd
    \/ \E height \in ObstacleHeightInputs : handleObstacleParamChanged(height)
    \/ handleObstacleDelete
    \/ applyUndo
    \/ applyRedo

SpecObstacles == Init /\ [][NextObstacles]_vars


\* ------------------------------------------------------------------------
\* The editor with its timers: outlets are placed, changed in the panel and
\* deleted, actions are undone and redone; the commit timer and the heatmap
\* timer fire when they are due.
\* The event loop runs a timer that is due, so the heatmap timer is not
\* left pending for ever.
\* ------------------------------------------------------------------------

\* volume flows typed into the panel, m3/h
EditorFlowInputs == {200, 400}

NextHeatmapTimer ==
    \/ handleCreateRoom(EditorRoom)
    \/ \E placed \in EditorPlacements : handleOutletPlaced(placed)
    \/ \E volumeFlow \in EditorFlowInputs : FlowInput(volumeFlow)
    \/ CommitTimerFires
    \/ DeleteOutlet
    \/ applyUndo
    \/ applyRedo
    \/ HeatmapTimerFires

SpecHeatmapTimer ==
    Init /\ [][NextHeatmapTimer]_vars /\ WF_vars(HeatmapTimerFires)


\* ------------------------------------------------------------------------
\* Direct calls of the undo history: push, undo, redo and clear in any
\* order.  The actions pushed are numbered as they follow each other in
\* the undo stack, so that the action a full stack drops is known.
\* ------------------------------------------------------------------------

\* the highest number of an action pushed
MaxPushes == 52

\* the action pushed on top of undo stack s
NextAction(s) ==
    [ type |-> "modify",
      outletId |-> IF Len(s) = 0 THEN 1 ELSE s[Len(s)].outletId + 1 ]

CallPush ==
    /\ NextAction(history.undoStack).outletId <= MaxPushes
    /\ args' = NextAction(history.undoStack)
    /\ history' = push(history, args')
    /\ ret' = [fn |-> "push", value |-> Null, before |-> history]
    /\ UNCHANGED << room, outlets, results, comfortResult,
                    obstacles, selection, timers, heatmaps >>

CallUndo ==
    /\ args' = Null
    /\ history' = undo(history).history
    /\ ret' = [fn |-> "undo", value |-> undo(history).action, before |-> history]
    /\ UNCHANGED << room, outlets, results, comfortResult,
                    obstacles, selection, timers, heatmaps >>

CallRedo ==
    /\ args' = Null
    /\ history' = redo(history).history
    /\ ret' = [fn |-> "redo", value |-> redo(history).action, before |-> history]
    /\ UNCHANGED << room, outlets, results, comfortResult,
                    obstacles, selection, timers, heatmaps >>

CallClear ==
    /\ args' = Null
    /\ history' = clear(history)
    /\ ret' = [fn |-> "clear", value |-> Null, before |-> history]
    /\ UNCHANGED << room, outlets, results, comfortResult,
                    obstacles, selection, timers, heatmaps >>

NextHistoryCalls ==
    \/ CallPush
    \/ CallUndo
    \/ CallRedo
    \/ CallClear

SpecHistoryCalls == Init /\ [][NextHistoryCalls]_vars


\* ------------------------------------------------------------------------
\* The editor with its properties panel: outlets are added as the example
\* loader adds them, selected, changed in the panel and deleted, and actions
\* are undone; the commit timer fires when it is due.
\* ------------------------------------------------------------------------

\* the volume flow typed into the panel, m3/h
PanelFlowInputs == {200}

NextPanel ==
    \/ handleCreateRoom(EditorRoom)
    \/ \E placed \in EditorPlacements : placed.id \notin KnownOutletIds /\ addOutlet(placed)
    \/ \E outletId \in 1..PlacementCount : handleOutletSelected(outletId)
    \/ \E volumeFlow \in PanelFlowInputs : FlowInput(volumeFlow)
    \/ CommitTimerFires
    \/ DeleteOutlet
    \/ applyUndo

SpecPanel == Init /\ [][NextPanel]_vars


\* ------------------------------------------------------------------------
\* The editor with its undo history: outlets are placed, changed in the
\* panel and deleted, actions are undone and redone, and the commit timer
\* fires when it is due.
\* ------------------------------------------------------------------------

NextUndoRedo ==
    \/ handleCreateRoom(EditorRoom)
    \/ \E placed \in EditorPlacements : handleOutletPlaced(placed)
    \/ \E volumeFlow \in PanelFlowInputs : FlowInput(volumeFlow)
    \/ CommitTimerFires
    \/ DeleteOutlet
    \/ applyUndo
    \/ applyRedo

SpecUndoRedo == Init /\ [][NextUndoRedo]_vars


\* ------------------------------------------------------------------------
\* The editor with every handler that changes an outlet: outlets are
\* placed, selected, dragged, rotated, changed in the panel and deleted,
\* actions are undone and redone, a new room is created.
\* ------------------------------------------------------------------------

\* where an outlet is dragged to
OutletPositionInputs == { [x |-> 1000, z |-> -1000] }

\* the step of the R key, degrees
RotationStepInputs == {90}

NextEditor ==
    \/ handleCreateRoom(EditorRoom)
    \/ \E placed \in EditorPlacements : handleOutletPlaced(placed)
    \/ \E outletId \in 1..PlacementCount : handleOutletSelected(outletId)
    \/ \E pos \in OutletPositionInputs : handleOutletMoved(pos.x, pos.z)
    \/ handleDragEnd
    \/ \E step \in RotationStepInputs : handleOutletRotated(step)
    \/ \E volumeFlow \in PanelFlowInputs : FlowInput(volumeFlow)
    \/ CommitTimerFires
    \/ DeleteOutlet
    \/ applyUndo
    \/ applyRedo

SpecEditor == Init /\ [][NextEditor]_vars

\* ------------------------------------------------------------------------
\* The editor with its selections: outlets and obstacles are placed,
\* selected, deselected and deleted, the outlet the placer has selected is
\* rotated, actions are undone and redone, a new room is created.
\* ------------------------------------------------------------------------

NextSelection ==
    \/ handleCreateRoom(EditorRoom)
    \/ \E placed \in EditorPlacements : handleOutletPlaced(placed)
    \/ \E outletId \in 1..PlacementCount : handleOutletSelected(outletId)
    \/ handleOutletDeselected
    \/ \E step \in RotationStepInputs : handleOutletRotated(step)
    \/ DeleteOutlet
    \/ EscapeKey
    \/ \E obstacleData \in ObstacleInputs : handleObstaclePlaced(obstacleData)
    \/ \E obstacleData \in ObstacleInputs : handleObstacleSelected(obstacleData.id)
    \/ handleObstacleDeselected
    \/ handleObstacleDelete
    \/ applyUndo
    \/ applyRedo

SpecSelection == Init /\ [][NextSelection]_vars


\* ------------------------------------------------------------------------
\* Properties
\* ------------------------------------------------------------------------

\* C1: every result of evaluateComfort is FAIL overall exactly when its
\* summed sound level exceeds the limit of the room type or its velocity
\* tier is FAIL; in every other case the overall category is the velocity
\* tier.  The limit is that of the type of the room the outlets are in.
C1_OverallCategory ==
    comfortResult # Null =>
        /\ comfortResult.overallCategory = "FAIL"
             <=> \/ comfortResult.totalSoundLevel > comfortResult.soundLimit
                 \/ comfortResult.velocityCategory = "FAIL"
        /\ comfortResult.overallCategory # "FAIL"
             => comfortResult.overallCategory = comfortResult.velocityCategory
        /\ outlets # << >>
             => comfortResult.soundLimit = ROOM_TYPES[room.roomType].maxDbA

\* a compliant sound level leaves a velocity tier II or III as the overall
\* category
C1_Witness ==
    /\ comfortResult # Null
    /\ outlets # << >>
    /\ comfortResult.totalSoundLevel <= comfortResult.soundLimit
    /\ comfortResult.velocityCategory \in {"II", "III"}
    /\ comfortResult.overallCategory = comfortResult.velocityCategory

\* C2: getVelocityCategory maps a velocity to exactly one tier, boundaries
\* inclusive on the lower tier: v <= 0.15 m/s gives I, 0.15 < v <= 0.20
\* gives II, 0.20 < v <= 0.25 gives III, and v > 0.25 gives FAIL.
C2_VelocityTiers ==
    (ret # Null /\ ret.fn = "getVelocityCategory") =>
        /\ ret.value \in {"I", "II", "III", "FAIL"}
        /\ ret.value = "I" <=> args.v <= 1500
        /\ ret.value = "II" <=> (1500 < args.v /\ args.v <= 2000)
        /\ ret.value = "III" <=> (2000 < args.v /\ args.v <= 2500)
        /\ ret.value = "FAIL" <=> args.v > 2500

\* the call with exactly 0.25 m/s has returned tier III
C2_Witness ==
    /\ ret # Null
    /\ ret.fn = "getVelocityCategory"
    /\ args.v = 2500
    /\ ret.value = "III"

\* the entries evaluateComfort was last given, for the outlets in the room
Entries == outletsForComfort(outlets, results, 1)

\* the entries without the exhaust outlets
SupplyEntries == SelectSeq(Entries, LAMBDA o : o.outlet.outletCategory # "exhaust")

\* C3: on the grid path and on the fallback path alike, the reported
\* maxVelocityOccupied is the one evaluateComfort reports with every exhaust
\* outlet removed from the list, while the sound power level of every
\* outlet, exhaust included, is summed into totalSoundLevel.
C3_ExhaustNoVelocity ==
    outlets # << >> =>
        /\ comfortResult.maxVelocityOccupied
             = evaluateComfort(SupplyEntries, room).maxVelocityOccupied
        /\ comfortResult.totalSoundLevel
             = sumSoundLevels([i \in 1..Len(Entries) |-> Entries[i].jetResult.soundPowerLevel])

\* C4: when every outlet given to evaluateComfort is an exhaust outlet, the
\* result has maxVelocityOccupied 0, velocity tier I and draught rate 0,
\* while totalSoundLevel is the energetic sum of the sound power levels of
\* all the exhausts and is what is compared with the limit of the room.
C4_ExhaustOnly ==
    (outlets # << >> /\ \A i \in 1..Len(outlets) : outlets[i].outletCategory = "exhaust") =>
        /\ comfortResult.maxVelocityOccupied = 0
        /\ comfortResult.velocityCategory = "I"
        /\ comfortResult.draughtRate = 0
        /\ comfortResult.totalSoundLevel
             = sumLevels([i \in 1..Len(outlets) |-> results[outlets[i].id].soundPowerLevel])
        /\ comfortResult.soundCompliant
             <=> comfortResult.totalSoundLevel <= ROOM_TYPES[room.roomType].maxDbA

\* two exhaust outlets and no supply outlet in a room of known size
C4_Witness ==
    /\ Len(outlets) = 2
    /\ \A i \in 1..Len(outlets) : outlets[i].outletCategory = "exhaust"
    /\ room.length > 0
    /\ room.width > 0
    /\ comfortResult # Null
    /\ comfortResult.maxVelocityOccupied = 0
    /\ comfortResult.totalSoundLevel > 0

\* the largest element of a non-empty set of numbers
SetMax(S) == CHOOSE m \in S : \A x \in S : x <= m

\* the centres of the 10 cells along a side of the room
CellCentres(side) == { (0 - side \div 2) + side \div 20 + k * (side \div 10) : k \in 0..9 }

\* the indices of the entries that are no exhaust outlets
SupplyIndices == { i \in 1..Len(Entries) : Entries[i].outlet.outletCategory # "exhaust" }

\* C5: evaluateComfort samples the 10 x 10 x 3 grid (cell centres at the
\* heights 0.1, 1.0 and 1.8 m, worst case the largest magnitude of the
\* vector field) exactly when at least two supply outlets with a jet result
\* exist and the length and width of the room are known; in every other
\* case the worst case is the largest per-outlet estimate over the outlets
\* that are no exhausts, 0 when there are none.
C5_GridOrFallback ==
    outlets # << >> =>
        IF Cardinality(SupplyIndices) >= 2 /\ room.length > 0 /\ room.width > 0
        THEN comfortResult.maxVelocityOccupied
               = SetMax({0} \cup { getVelocityMagnitudeAt(cx, cy, cz, outletData(Entries)) :
                                     cx \in CellCentres(room.length),
                                     cy \in {100, 1000, 1800},
                                     cz \in CellCentres(room.width) })
        ELSE comfortResult.maxVelocityOccupied
               = SetMax({0} \cup { Entries[i].jetResult.maxVelocityOccupied :
                                     i \in SupplyIndices })

\* two supply outlets in a room of known size: the grid is sampled, and its
\* worst case is not the largest per-outlet estimate
C5_Witness ==
    /\ outlets # << >>
    /\ Cardinality(SupplyIndices) >= 2
    /\ room.length > 0
    /\ room.width > 0
    /\ comfortResult.maxVelocityOccupied
         # SetMax({0} \cup { Entries[i].jetResult.maxVelocityOccupied : i \in SupplyIndices })

\* C6: calcDraughtRate returns exactly 0 for every velocity v <= 0.05 m/s
\* whatever the temperature and the turbulence intensity, and a value within
\* [0, 100] % for every other input.
C6_DraughtRateRange ==
    (ret # Null /\ ret.fn = "calcDraughtRate") =>
        /\ args.v <= 500 => ret.value = 0
        /\ 0 <= ret.value
        /\ ret.value <= 100 * 100

\* a strong draught of cool air has been clamped to 100 %
C6_Witness ==
    /\ ret # Null
    /\ ret.fn = "calcDraughtRate"
    /\ args.v > 500
    /\ args.tLocal < 3400
    /\ ret.value = 100 * 100

\* C7: sumSoundLevels([]) of the jet module returns 0 and sumLevels([]) of the
\* room-acoustics module returns negative infinity; for every non-empty
\* input both helpers return the same value.
C7_EmptyResults ==
    /\ (ret # Null /\ ret.fn = "sumSoundLevels") =>
           IF args.levels = << >> THEN ret.value = 0
           ELSE ret.value = sumLevels(args.levels) /\ ret.value # NegInfinity
    /\ (ret # Null /\ ret.fn = "sumLevels") =>
           IF args.levels = << >> THEN ret.value = NegInfinity
           ELSE ret.value = sumSoundLevels(args.levels) /\ ret.value # NegInfinity

C7_Witness ==
    /\ ret # Null
    /\ ret.fn = "sumLevels"
    /\ args.levels = << >>
    /\ ret.value = NegInfinity
    /\ sumSoundLevels(args.levels) = 0

\* the orders a list can be given in
Orders(q) ==
    { [i \in 1..Len(q) |-> q[f[i]]] :
        f \in { g \in [1..Len(q) -> 1..Len(q)] :
                  \A a, b \in 1..Len(q) : g[a] = g[b] => a = b } }

\* the list summed in two groups, each group replaced by its summed level
Regroupings(q) ==
    { << sumLevels(SubSeq(q, 1, k)), sumLevels(SubSeq(q, k + 1, Len(q))) >> :
        k \in 1..(Len(q) - 1) }

Rearrangements(q) ==
    Orders(q) \cup UNION { Regroupings(r) : r \in Orders(q) }

\* what the function called in ret makes of the levels q
ResultFor(q) ==
    IF ret.fn = "sumLevels" THEN sumLevels(q)
    ELSE IF ret.fn = "sumSoundLevels" THEN sumSoundLevels(q)
    ELSE evaluateComfort(SoundEntries(q), SoundRoom(args.roomType))

SummedLevel(v) == IF ret.fn = "evaluateComfort" THEN v.totalSoundLevel ELSE v

SameVerdict(v, w) ==
    ret.fn = "evaluateComfort" =>
        /\ v.soundCompliant = w.soundCompliant
        /\ v.overallCategory = w.overallCategory

\* two levels that differ by rounding only: at most 0.002 dB
WithinRounding(a, b) == Abs(a - b) <= 2

\* C8 as stated: any permutation or regrouping of the levels gives the same
\* summed level from sumLevels, sumSoundLevels and evaluateComfort's
\* totalSoundLevel, and the same soundCompliant and overall tier.
C8_OrderIndependent ==
    ret # Null =>
        \A q \in Rearrangements(args.levels) :
            /\ SummedLevel(ResultFor(q)) = SummedLevel(ret.value)
            /\ SameVerdict(ResultFor(q), ret.value)

\* C8 amended: any permutation or regrouping of the levels gives a summed
\* level within rounding of the one returned, and soundCompliant and the
\* overall tier change with the order only when the summed level is within
\* rounding of the room type's limit.
C8_OrderWithinRounding ==
    ret # Null =>
        \A q \in Rearrangements(args.levels) :
            /\ WithinRounding(SummedLevel(ResultFor(q)), SummedLevel(ret.value))
            /\ \/ SameVerdict(ResultFor(q), ret.value)
               \/ WithinRounding(SummedLevel(ret.value), ret.value.soundLimit)

C8_Witness ==
    /\ ret # Null
    /\ ret.fn = "evaluateComfort"
    /\ Len(args.levels) = MaxLevels
    /\ ret.value.soundCompliant
    /\ \E q \in Orders(args.levels) :
           /\ ~ResultFor(q).soundCompliant
           /\ ResultFor(q).overallCategory = "FAIL"
           /\ ResultFor(q).totalSoundLevel # ret.value.totalSoundLevel

\* the Coanda condition as the claim words it, read from the call's inputs
CoandaExpected ==
    /\ args.mounting = "ceiling"
    /\ getType(args.typeKey).coanda
    /\ ~(args.typeKey = "slot" /\ args.slotDirection = "vertical")

\* C9: for a supply terminal Coanda attachment is active exactly when the
\* mounting is ceiling, the catalog flags the type as Coanda-capable and the
\* terminal is not a slot set to vertical discharge; when active
\* throwDistance is sqrt(2) times throwDistanceFree, when inactive
\* throwDistance is throwDistanceFree and throwDistanceCoanda is null.
C9_CoandaThrow ==
    (ret # Null /\ ret.value.outletCategory = "supply") =>
        IF CoandaExpected
        THEN /\ ret.value.throwDistanceCoanda # None
             /\ ret.value.throwDistance = ret.value.throwDistanceCoanda[1]
             /\ ret.value.throwDistance = TimesSqrt2(ret.value.throwDistanceFree)
             /\ ret.value.throwDistance > ret.value.throwDistanceFree
        ELSE /\ ret.value.throwDistanceCoanda = None
             /\ ret.value.throwDistance = ret.value.throwDistanceFree

C9_Witness ==
    /\ ret # Null
    /\ ret.value.outletCategory = "supply"
    /\ args.typeKey = "slot"
    /\ args.mounting = "ceiling"
    /\ args.slotDirection = "bidirectional"
    /\ ret.value.throwDistanceCoanda # None
    /\ ret.value.throwDistance > ret.value.throwDistanceFree

\* C10: the Archimedes number is 0 whenever room and supply temperature
\* differ by at most 0.1 K; detachmentPoint is non-null exactly when Coanda
\* is active, Ar > 0.01 and the supply is colder than the room, and then it
\* is at most the Coanda throw distance.
C10_Detachment ==
    ret # Null =>
        /\ Abs(args.roomTemp - args.supplyTemp) <= 10 => ret.value.archimedesNumber = 0
        /\ ret.value.detachmentPoint # None <=>
               /\ ret.value.throwDistanceCoanda # None
               /\ ret.value.archimedesNumber > 1000
               /\ args.supplyTemp < args.roomTemp
        /\ ret.value.detachmentPoint # None =>
               ret.value.detachmentPoint[1] <= ret.value.throwDistanceCoanda[1]

C10_Witness ==
    /\ ret # Null
    /\ ret.value.detachmentPoint # None
    /\ ret.value.archimedesNumber > 1000
    /\ ret.value.detachmentPoint[1] < ret.value.throwDistanceCoanda[1]

\* the call of ret made for the same terminal as a supply terminal
AsSupply == calculateOutlet(JetOutlet([args EXCEPT !.outletCategory = "supply"]), JetRoom(args))

\* C11: computing a terminal as exhaust yields the same exit velocity, sound
\* power level, sound pressure at 3 m and pressure drop as computing it as
\* supply, and an exhaust result has maxVelocityOccupied 0, Archimedes number
\* 0, no detachment point and no Coanda throw.
C11_ExhaustSameAsSupply ==
    (ret # Null /\ args.outletCategory = "exhaust") =>
        /\ ret.value.outletCategory = "exhaust"
        /\ ret.value.exitVelocity = AsSupply.exitVelocity
        /\ ret.value.soundPowerLevel = AsSupply.soundPowerLevel
        /\ ret.value.soundPressureAt3m = AsSupply.soundPressureAt3m
        /\ ret.value.pressureDrop = AsSupply.pressureDrop
        /\ ret.value.maxVelocityOccupied = 0
        /\ ret.value.archimedesNumber = 0
        /\ ret.value.detachmentPoint = None
        /\ ret.value.throwDistanceCoanda = None

C11_Witness ==
    /\ ret # Null
    /\ args.outletCategory = "exhaust"
    /\ args.typeKey = "swirl"
    /\ args.mounting = "ceiling"
    /\ args.supplyTemp < args.roomTemp
    /\ ret.value.maxVelocityOccupied = 0
    /\ AsSupply.maxVelocityOccupied > 0
    /\ AsSupply.detachmentPoint # None
    /\ ret.value.soundPowerLevel = AsSupply.soundPowerLevel

\* C12: the decay function of a jet result returns exactly v0 at every
\* distance at or below the core length (distances <= 0 included); beyond
\* the core length, for v0 > 0, it decreases with the distance (at the
\* resolution of 0.0001 m/s: never higher farther away, and lower at twice
\* the distance); it never returns a negative velocity.
C12_DecayFunction ==
    (ret # Null /\ ret.fn = "velocityAtDistance") =>
        /\ ret.x <= ret.jet.coreLength => ret.value = ret.jet.exitVelocity
        /\ (ret.x > ret.jet.coreLength /\ ret.jet.exitVelocity > 0) =>
               \A y \in DecayDistances(ret.jet) :
                   /\ y > ret.x =>
                          velocityAtDistance(ret.jet.velocityAtDistance, y) <= ret.value
                   /\ y >= 2 * ret.x =>
                          velocityAtDistance(ret.jet.velocityAtDistance, y) < ret.value
        /\ ret.value >= 0

C12_Witness ==
    /\ ret # Null
    /\ ret.fn = "velocityAtDistance"
    /\ args.typeKey = "slot"
    /\ args.outletCategory = "supply"
    /\ ret.x = 2 * ret.jet.coreLength
    /\ ret.value > 0
    /\ ret.value < ret.jet.exitVelocity
    /\ velocityAtDistance(ret.jet.velocityAtDistance, 4 * ret.jet.coreLength) < ret.value

\* C13: for every supply terminal the decay function returned by
\* calculateOutlet, evaluated at the free-jet throw distance of the same
\* call, returns the terminal velocity 0.20 m/s (within 2 %).
C13_ThrowRoundTrip ==
    (/\ ret # Null
     /\ ret.fn = "velocityAtDistance"
     /\ ret.jet.outletCategory = "supply"
     /\ ret.x = ret.jet.throwDistanceFree) =>
        Abs(ret.value - V_TERMINAL) * 50 <= V_TERMINAL

\* distance from the terminal to the point, mm
HorizontalDistTo(t, p) ==
    Sqrt((p.x - t.position3D.x) * (p.x - t.position3D.x)
         + (p.z - t.position3D.z) * (p.z - t.position3D.z))

TotalDistTo(t, p) ==
    Sqrt(HorizontalDistTo(t, p) * HorizontalDistTo(t, p)
         + (p.y - t.position3D.y) * (p.y - t.position3D.y))

\* the terminal is one the claim says contributes nothing at the point
Skipped(t, p) ==
    \/ t.jetResult = Null
    \/ t.jetResult.velocityAtDistance = Null
    \/ TotalDistTo(t, p) < 10
    \/ SpeedAt(t, HorizontalDistTo(t, p), Abs(p.y - t.position3D.y), TotalDistTo(t, p)) < 10

\* the list without its i-th element
Without(q, i) == SubSeq(q, 1, i - 1) \o SubSeq(q, i + 1, Len(q))

DirectionAt(t, p) ==
    _getJetDirection(t, p.x - t.position3D.x, p.y - t.position3D.y, p.z - t.position3D.z,
                     HorizontalDistTo(t, p), TotalDistTo(t, p))

\* dir * speed for terminal t at point p
DirectionTimesSpeed(t, p) ==
    LET speed == SpeedAt(t, HorizontalDistTo(t, p), Abs(p.y - t.position3D.y),
                         TotalDistTo(t, p))
    IN  [x |-> RoundDiv(DirectionAt(t, p).x * speed, 10^4),
         y |-> RoundDiv(DirectionAt(t, p).y * speed, 10^4),
         z |-> RoundDiv(DirectionAt(t, p).z * speed, 10^4)]

\* what the i-th terminal of the call added to (vx, vy, vz)
AddedBy(i) ==
    LET rest == getVelocityVectorAt(args.point.x, args.point.y, args.point.z,
                                    Without(args.outlets, i))
    IN  [x |-> ret.value.vx - rest.vx, y |-> ret.value.vy - rest.vy,
         z |-> ret.value.vz - rest.vz]

\* the scalar product of vector v with the way from point p to terminal t
TowardTerminal(v, t, p) ==
    v.x * (t.position3D.x - p.x) + v.y * (t.position3D.y - p.y)
    + v.z * (t.position3D.z - p.z)

VectorFor(q) == getVelocityVectorAt(args.point.x, args.point.y, args.point.z, q)

RECURSIVE SumOfSpeeds(_, _)
\* the sum of the speeds of the terminals of q, from the i-th on, that are
\* not skipped at the point of the call
SumOfSpeeds(q, i) ==
    IF i > Len(q) THEN 0
    ELSE (IF Skipped(q[i], args.point) THEN 0
          ELSE SpeedAt(q[i], HorizontalDistTo(q[i], args.point),
                       Abs(args.point.y - q[i].position3D.y), TotalDistTo(q[i], args.point)))
         + SumOfSpeeds(q, i + 1)

MagnitudeAtCell(idx) ==
    getVelocityMagnitudeAt((idx % ret.value.cols) * args.gridSpacing + ret.value.originX,
                           args.planeHeight,
                           (idx \div ret.value.cols) * args.gridSpacing + ret.value.originZ,
                           args.outlets)

\* C17: the value generateVelocityHeatmap stores in a grid cell equals the
\* magnitude getVelocityMagnitudeAt returns at that cell's world position
\* and height for the same outlets.
C17_HeatmapConsistent ==
    (ret # Null /\ ret.fn = "generateVelocityHeatmap") =>
        \A idx \in DOMAIN ret.value.grid : ret.value.grid[idx] = MagnitudeAtCell(idx)


\* the distance from a coordinate to the nearer of the two walls across
\* its axis, doubled, mm; the walls are at plus and minus half the extent
DoubledWallDistance(p, extent) ==
    Min2(Abs(extent - 2 * p), Abs(extent + 2 * p))

\* the number of horizontal axes along which the source of the call is
\* within the wall threshold of a wall; at the threshold counts if inclusive
AxesNearWall(inclusive) ==
    LET dx == DoubledWallDistance(args.position.x, args.room.length)
        dz == DoubledWallDistance(args.position.z, args.room.width)
        near(d) == d < 2 * wallThreshold \/ (inclusive /\ d = 2 * wallThreshold)
    IN  (IF near(dx) THEN 1 ELSE 0) + (IF near(dz) THEN 1 ELSE 0)

QForAxes(n) == IF n = 2 THEN 8 ELSE IF n = 1 THEN 4 ELSE 2

\* C18: for a ceiling-mounted source at any position in any room,
\* getDirectivityQ returns 8 when the source is within 0.5 m of a wall
\* along both horizontal axes (0.5 m itself included), 4 when along
\* exactly one, and 2 otherwise.
C18_DirectivityWithin ==
    (ret # Null /\ ret.fn = "getDirectivityQ" /\ args.mounting = "ceiling") =>
        ret.value = QForAxes(AxesNearWall(TRUE))

\* C18 as amended: the same with "closer than 0.5 m" in place of "within
\* 0.5 m": a source exactly 0.5 m from a wall is not near it.
C18_DirectivityCloserThan ==
    (ret # Null /\ ret.fn = "getDirectivityQ" /\ args.mounting = "ceiling") =>
        ret.value = QForAxes(AxesNearWall(FALSE))

\* a ceiling source exactly 0.5 m from one wall and closer than 0.5 m to
\* another has got the factor 4
C18_Witness ==
    /\ ret # Null /\ ret.fn = "getDirectivityQ" /\ args.mounting = "ceiling"
    /\ DoubledWallDistance(args.position.x, args.room.length) = 2 * wallThreshold
    /\ DoubledWallDistance(args.position.z, args.room.width) < 2 * wallThreshold
    /\ ret.value = 4


\* the type key of the call is in neither catalog
UnknownType == args.typeKey \notin DOMAIN DIFFUSER_TYPES \cup DOMAIN EXHAUST_TYPES

\* the size index of the call is none of the sizes of its type
UnknownSize(catalog) ==
    \/ args.typeKey \notin DOMAIN catalog
    \/ args.sizeIndex < 0
    \/ args.sizeIndex >= Len(catalog[args.typeKey].sizes)

\* the loss coefficients of the types of the catalogs
CatalogZetas == { getZeta(k) : k \in DOMAIN DIFFUSER_TYPES \cup DOMAIN EXHAUST_TYPES }

\* C19: a catalog lookup with a type key of neither catalog, or with a
\* size index below 0 or at or beyond the number of sizes, returns null,
\* and no default stands in for an unknown key: an unknown type key gets
\* no loss coefficient and an unknown room type gets no limit.
C19_NoDefaults ==
    ret # Null =>
        /\ (ret.fn = "getType" /\ UnknownType) => ret.value = Null
        /\ (ret.fn = "getExhaustType" /\ args.typeKey \notin DOMAIN EXHAUST_TYPES)
               => ret.value = Null
        /\ (ret.fn = "getSize" /\ (UnknownType \/ UnknownSize(DIFFUSER_TYPES @@ EXHAUST_TYPES)))
               => ret.value = Null
        /\ (ret.fn = "getExhaustSize" /\ UnknownSize(EXHAUST_TYPES)) => ret.value = Null
        /\ (ret.fn = "getZeta" /\ UnknownType) => ret.value \notin CatalogZetas
        /\ (ret.fn = "getRoomTypeLimit" /\ args.roomTypeKey \notin DOMAIN ROOM_TYPES)
               => ret.value = Null


\* the summary of the call lists a recommendation about this
Lists(about) ==
    \E i \in DOMAIN ret.value.recommendations : ret.value.recommendations[i].about = about

\* C20: the thresholds read by getComfortSummary match the comfort
\* evaluation: for every result of evaluateComfort the summary lists the
\* draught-rate recommendation exactly when draughtRateOk is false, the
\* sound recommendation exactly when soundCompliant is false, the velocity
\* recommendation exactly when the velocity exceeds 0.20 m/s, and "all
\* comfort criteria met" only when none of the three applies, so never
\* when the overall category is FAIL.
C20_SummaryThresholds ==
    (ret # Null /\ ret.fn = "getComfortSummary") =>
        /\ Lists("draughtRate") <=> ~comfortResult.draughtRateOk
        /\ Lists("sound") <=> ~comfortResult.soundCompliant
        /\ Lists("velocity") <=> comfortResult.maxVelocityOccupied > CATEGORIES.II.maxVelocity
        /\ Lists("allCriteriaMet") =>
               /\ comfortResult.draughtRateOk
               /\ comfortResult.soundCompliant
               /\ comfortResult.maxVelocityOccupied <= CATEGORIES.II.maxVelocity
               /\ comfortResult.overallCategory # "FAIL"

C22_HeatmapDebounced ==
    /\ [][/\ timers'.heatmapTimers <= 1
          /\ timers'.heatmapTimers < timers.heatmapTimers
                => /\ timers'.heatmapTimers = 0
                   /\ heatmaps'.timerRuns = 1
                   /\ heatmaps'.outletsForCalc =
                         (IF room = Null \/ Len(outlets) = 0 THEN << >>
                          ELSE outletsForCalc(outlets, results, 1))]_vars
    /\ (timers.heatmapTimers > 0 ~> heatmaps.timerRuns = 1)

\* the heatmaps shown are those of an outlet after a burst of changes in
\* the panel and one run of the timer
C22_Witness ==
    /\ heatmaps.timerRuns = 1
    /\ timers.heatmapTimers = 0
    /\ Len(heatmaps.outletsForCalc) = 1
    /\ heatmaps.outletsForCalc[1].jetResult = results[outlets[1].id]
    /\ Len(history.undoStack) > 0
    /\ history.undoStack[Len(history.undoStack)].type = "modify"

\* C23: the undo stack never holds more than MAX_HISTORY actions, a push
\* on a full stack drops the oldest action and keeps the others in order,
\* every push leaves the redo stack empty, and undo or redo on an empty
\* stack returns null and leaves both stacks as they were.
C23_HistoryBounded ==
    /\ Len(history.undoStack) <= MAX_HISTORY
    /\ ret # Null =>
          /\ ret.fn = "push" =>
                /\ history.redoStack = << >>
                /\ history.undoStack =
                      IF Len(ret.before.undoStack) = MAX_HISTORY
                      THEN Append(Tail(ret.before.undoStack), args)
                      ELSE Append(ret.before.undoStack, args)
          /\ (ret.fn = "undo" /\ Len(ret.before.undoStack) = 0) =>
                ret.value = Null /\ history = ret.before
          /\ (ret.fn = "redo" /\ Len(ret.before.redoStack) = 0) =>
                ret.value = Null /\ history = ret.before

\* an action is pushed on a full stack, whose oldest action is dropped
C23_Witness ==
    /\ ret # Null
    /\ ret.fn = "push"
    /\ Len(ret.before.undoStack) = MAX_HISTORY
    /\ ret.before.undoStack[1].outletId = 1
    /\ history.undoStack[1].outletId = 2
    /\ history.undoStack[MAX_HISTORY] = args

\* C24: when the commit timer of a burst of changes of one outlet fires and
\* the outlet is there, exactly one 'modify' action is pushed, from the state
\* of the outlet before the first change of the burst to its state now, and
\* none when the two states are equal.
C24_OneModifyPerBurst ==
    [][(/\ timers.paramCommitTimer # NoId
        /\ timers'.paramCommitTimer = NoId
        /\ args # Null
        /\ args.outletId = timers.paramCommitTimer
        /\ HasOutlet(outlets, args.outletId))
          => LET now == snapshotOutlet(GetOutlet(outlets, args.outletId))
             IN  IF now = args.before THEN history' = history
                 ELSE history' = push(history, [ type |-> "modify",
                                                 outletId |-> args.outletId,
                                                 before |-> args.before,
                                                 after |-> now ])]_vars

\* C25: once no commit timer is pending, every change made in the panel to
\* an outlet of the room is covered by a 'modify' action pushed since.
C25_NoChangeLost ==
    timers.paramCommitTimer = NoId
        => \A outletId \in Uncovered : ~HasOutlet(outlets, outletId)

\* the parameters of the outlets of the room, by id
OutletParameters(os) == { snapshotOutlet(os[i]) : i \in 1..Len(os) }

\* state s has the outlets, the parameters and the history of the state
\* the application is in
RestoredIn(s) ==
    /\ OutletIds(s.outlets) = OutletIds(outlets)
    /\ OutletParameters(s.outlets) = OutletParameters(outlets)
    /\ s.history = history

\* C26: from every state with an action to undo, applyUndo followed at once
\* by applyRedo brings back the outlets, their parameters and both stacks,
\* also when the pending commit timer fires between the two.
C26_UndoRedoRestores ==
    Len(history.undoStack) > 0 =>
        LET undone == AfterUndo(State)
            fired  == IF undone.timers.paramCommitTimer # NoId
                      THEN _commitParamChange(undone, undone.timers.paramCommitTimer)
                      ELSE undone
        IN  /\ RestoredIn(AfterRedo(undone))
            /\ RestoredIn(AfterRedo(fired))

\* C27: after every handler the stored results belong to outlets of the
\* room, and while a room exists every outlet has a stored result, the one
\* calculateOutlet gives for its parameters of the moment and the room.
C27_ResultsCurrent ==
    /\ DOMAIN results \subseteq OutletIds(outlets)
    /\ room # Null =>
          \A i \in 1..Len(outlets) :
              /\ outlets[i].id \in DOMAIN results
              /\ results[outlets[i].id] = JetResultOf(outlets[i], room)

\* a change of the volume flow in the panel was committed and undone
C27_Witness ==
    /\ room # Null
    /\ Len(outlets) = 1
    /\ Len(history.redoStack) > 0
    /\ history.redoStack[Len(history.redoStack)].type = "modify"
    /\ outlets[1].volumeFlow = history.redoStack[Len(history.redoStack)].before.volumeFlow
    /\ history.redoStack[Len(history.redoStack)].before.volumeFlow
          # history.redoStack[Len(history.redoStack)].after.volumeFlow

\* C28: after every handler comfortResult is null when there is no room or
\* no outlet, and is what evaluateComfort gives for the outlets, results and
\* room of the moment otherwise.
C28_ComfortCurrent ==
    comfortResult = UpdatedComfort(room, outlets, results)

\* C29: after every handler at most one of state.selectedOutletId and
\* state.selectedObstacleId is set, and the outlet the placer has selected
\* is the one the application has selected.
C29_SelectionAgrees ==
    /\ selection.outletId = NoId \/ selection.obstacleId = NoId
    /\ selection.placer = selection.outletId

\* the heatmap a call of either generator returned
IsHeatmapCall ==
    ret # Null /\ ret.fn \in {"generateVelocityHeatmap", "generateSoundHeatmap"}

\* the cells are exactly the cols * rows cells of the grid
CellsWritten(h) == DOMAIN h.grid = 0..(h.cols * h.rows - 1)

\* every sampled world position lies inside the footprint of the room
SamplesInsideRoom(h, rm) ==
    /\ \A ix \in 0..(h.cols - 1) : 2 * Abs(SampleX(rm, h.gridSpacing, ix)) <= rm.length
    /\ \A iz \in 0..(h.rows - 1) : 2 * Abs(SampleZ(rm, h.gridSpacing, iz)) <= rm.width

\* minVal and maxVal are the least and the largest cell
ExtremesOfCells(h) ==
    /\ \E i \in DOMAIN h.grid : h.grid[i] = h.minVal
    /\ \E i \in DOMAIN h.grid : h.grid[i] = h.maxVal
    /\ \A i \in DOMAIN h.grid : h.minVal <= h.grid[i] /\ h.grid[i] <= h.maxVal

\* C30: for every room size and grid spacing both heatmap generators write
\* every one of the cols * rows cells, every sampled world position lies
\* inside the room footprint, minVal and maxVal are the minimum and the
\* maximum over the cells, and a sound heatmap without outlets holds 0 in
\* every cell.
C30_HeatmapGridSound ==
    IsHeatmapCall =>
        /\ CellsWritten(ret.value)
        /\ SamplesInsideRoom(ret.value, VectorRoom)
        /\ ExtremesOfCells(ret.value)
        /\ (ret.fn = "generateSoundHeatmap" /\ Len(args.outlets) = 0) =>
               \A i \in DOMAIN ret.value.grid : ret.value.grid[i] = 0

====
